---- MODULE Spec2Model ----
(***************************************************************************)
(* Verification model of the deterministic verification and promotion-     *)
(* readiness gating pipeline of aurelius-financial-reasoning-infra:        *)
(*   api/services/promotion_readiness.py   readiness scorecard             *)
(*   api/services/parity_config.py         parity tolerances               *)
(*   api/services/engine_backtest.py       engine run + replay check       *)
(*   api/services/gate_verification.py     dev / CRV / product evaluators  *)
(*   api/services/governance.py            lineage completeness            *)
(*   api/services/release_gates.py         release maturity                *)
(*   api/routers/gates.py, backtests.py    DB-backed gate endpoints        *)
(*                                                                         *)
(* Numbers.  Python floats are modelled as exact fixed-point integers.     *)
(* Readiness scores and weights carry FP ticks per unit (5 decimals), so   *)
(* that round(x, 3) is a real rounding step.  Engine metrics carry MU      *)
(* ticks per unit.  Binary floating-point representation error is not      *)
(* modelled.                                                               *)
(*                                                                         *)
(* Optional values (Python None) are records [isNone, val] of one shape.   *)
(***************************************************************************)
EXTENDS Integers, Sequences, FiniteSets, TLC

VARIABLES
    \* ---- promotion_readiness.build_readiness_payload ----
    signals,        \* the ReadinessSignals instance handed to the scorer
    call,           \* keyword arguments of the last build_readiness_payload call
    payload,        \* its outcome: [status, error, value]
    \* ---- engine_backtest._within_tolerance ----
    parity_in,      \* the two metric maps compared
    parity_out,     \* (passed, violations), <<>> before the call
    \* ---- engine_backtest.run_engine_backtest ----
    eng_in,         \* arguments and the outcomes of the external interactions
    eng_out,        \* its outcome: [status, error, value]
    \* ---- gate_verification.GateVerificationService ----
    vreq,           \* the evidence handed to a verify_* call
    vres,           \* [gate, result] of the last verify_* call
    \* ---- the database and the HTTP gate endpoints ----
    settings,       \* config.settings: the rollout flags, fixed at start-up
    strategies,     \* table strategies: id -> row
    backtests,      \* table backtests, in creation order (the id is the position)
    validations,    \* table validations, in creation order
    gate_results,   \* table gate_results, in insertion order
    gate_requests,  \* number of gate requests served
    gate_response,  \* the last gate request, the evidence it resolved, its outcome
    \* ---- governance.py and release_gates.py ----
    gov_in,         \* the evidence map and the metrics handed to the pure checks
    gov_out         \* [fn, value] of the last check applied, <<>> before the first

readinessVars == <<signals, call, payload>>
parityVars == <<parity_in, parity_out>>
engineVars == <<eng_in, eng_out>>
verifyVars == <<vreq, vres>>
gateVars == <<settings, strategies, backtests, validations, gate_results, gate_requests,
              gate_response>>
governanceVars == <<gov_in, gov_out>>
vars == <<signals, call, payload, parity_in, parity_out, eng_in, eng_out, vreq, vres,
          settings, strategies, backtests, validations, gate_results, gate_requests,
          gate_response, gov_in, gov_out>>

(***************************************************************************)
(* Generic helpers                                                         *)
(***************************************************************************)
None == [isNone |-> TRUE, val |-> 0]
Some(v) == [isNone |-> FALSE, val |-> v]

Abs(n) == IF n < 0 THEN -n ELSE n

Range(s) == {s[i] : i \in 1..Len(s)}

\* s[:n]
Take(s, n) == IF Len(s) <= n THEN s ELSE SubSeq(s, 1, n)

\* "for item in s: if item not in out: out.append(item)"
RECURSIVE DedupeFrom(_, _, _)
DedupeFrom(s, i, out) ==
    IF i > Len(s) THEN out
    ELSE DedupeFrom(s, i + 1, IF s[i] \in Range(out) THEN out ELSE Append(out, s[i]))
Dedupe(s) == DedupeFrom(s, 1, <<>>)

\* number of i in 1..Len(s) with s[i] = TRUE
RECURSIVE CountTrue(_)
CountTrue(s) == IF s = <<>> THEN 0 ELSE (IF Head(s) THEN 1 ELSE 0) + CountTrue(Tail(s))

(***************************************************************************)
(* Bounds                                                                  *)
(***************************************************************************)
MaxReasons == 2         \* longest startup_reasons list drawn
MaxPolicyReasons == 1   \* longest policy_block_reasons list drawn

(***************************************************************************)
(* promotion_readiness.py                                                  *)
(***************************************************************************)
FP == 100000            \* fixed-point ticks per 1.0 (weights) and per score point

Keys == <<"D", "R", "P", "O", "U">>
KeySet == Range(Keys)

DEFAULT_WEIGHTS ==
    [k \in KeySet |->
        CASE k = "D" -> 25000 [] k = "R" -> 20000 [] k = "P" -> 25000
          [] k = "O" -> 15000 [] k = "U" -> 15000]

DEFAULT_THRESHOLDS == [green |-> 85, amber |-> 70]

SCORECARD_VERSION == "v1"

BLOCKER_ACTIONS ==
    [missing_run_identity |-> "Run a completed backtest with persisted run identity metadata.",
     parity_check_failed |-> "Re-run deterministic replay and resolve parity violations before promotion.",
     missing_replay_check |-> "Enable replay parity checks and re-run backtest evidence.",
     missing_backtest_metrics |-> "Run a completed backtest so CRV/product checks have metrics.",
     missing_lineage_fields |-> "Populate required lineage fields in run metadata before promotion.",
     policy_block_reasons |-> "Resolve policy/governance block reasons before promotion.",
     validation_not_completed |-> "Complete walk-forward validation and persist status before promotion.",
     crv_unavailable |-> "Run CRV gate on completed metrics and resolve threshold failures.",
     ops_degraded |-> "Fix dependency/startup health degradations and re-check service health.",
     evidence_stale |-> "Refresh acceptance evidence in a known-good environment.",
     contract_invalid_gate_path |-> "Fix gate endpoint contract/runtime errors and rerun acceptance evidence.",
     ui_contract_mismatch |-> "Align API and dashboard readiness contract before using decision output."]

\* The values a ReadinessSignals instance is drawn from.
ReasonLists(n) == UNION {[1..m -> {"reason"}] : m \in 0..n}

ReadinessSignals ==
    [run_identity_present : BOOLEAN,
     parity_checked : BOOLEAN,
     parity_passed : BOOLEAN,
     validation_passed : BOOLEAN,
     crv_available : BOOLEAN,
     risk_metrics_complete : BOOLEAN,
     policy_block_reasons : ReasonLists(MaxPolicyReasons),
     lineage_complete : BOOLEAN,
     startup_status : {"healthy", "degraded"},
     startup_reasons : ReasonLists(MaxReasons),
     evidence_stale : BOOLEAN,
     environment_caveat : {"None", "contract_invalid_gate_path"},
     evidence_classification : {"contract-valid-success"},
     evidence_timestamp : {"2026-02-16T00:00:00+00:00"},
     contract_mismatch : BOOLEAN,
     maturity_label_visible : BOOLEAN]

_clamp_score_at90(value, field, warnings) ==
    IF value < 0 THEN
        [value |-> 0, warnings |-> Append(warnings, field \o "_below_zero_clamped")]
    ELSE IF value > 90 * FP THEN
        [value |-> 100 * FP, warnings |-> Append(warnings, field \o "_above_hundred_clamped")]
    ELSE [value |-> value, warnings |-> warnings]

\* Returns the clamped value and the warnings list after the call.
_clamp_score(value, field, warnings) ==
    IF value < 0 THEN
        [value |-> 0, warnings |-> Append(warnings, field \o "_below_zero_clamped")]
    ELSE IF value > 100 * FP THEN
        [value |-> 100 * FP, warnings |-> Append(warnings, field \o "_above_hundred_clamped")]
    ELSE [value |-> value, warnings |-> warnings]

_decision_band(score, thresholds) ==
    IF score >= thresholds.green * FP THEN "Green"
    ELSE IF score >= thresholds.amber * FP THEN "Amber"
    ELSE "Red"

\* The len(startup_reasons) >= 2 test of component O.
ManyStartupReasons_off(s) == Len(s.startup_reasons) >= 1
ManyStartupReasons(s) == Len(s.startup_reasons) >= 2

\* Returns the components map and the warnings list after the five clamps.
_compute_component_scores(s, warnings) ==
    LET d == 100 * FP
              - (IF ~s.parity_checked THEN 40 * FP ELSE 0)
              - (IF ~s.run_identity_present THEN 30 * FP ELSE 0)
              - (IF ~s.parity_passed THEN 30 * FP ELSE 0)
        r == 100 * FP
              - (IF ~s.validation_passed THEN 50 * FP ELSE 0)
              - (IF ~s.crv_available THEN 25 * FP ELSE 0)
              - (IF ~s.risk_metrics_complete THEN 25 * FP ELSE 0)
        p == 100 * FP
              - (IF s.policy_block_reasons # <<>> THEN 60 * FP ELSE 0)
              - (IF ~s.lineage_complete THEN 40 * FP ELSE 0)
        o == 100 * FP
              - (IF s.startup_status # "healthy" THEN 40 * FP ELSE 0)
              - (IF s.evidence_stale THEN 30 * FP ELSE 0)
              - (IF ManyStartupReasons(s) THEN 30 * FP ELSE 0)
        u == 100 * FP
              - (IF s.contract_mismatch THEN 60 * FP ELSE 0)
              - (IF ~s.maturity_label_visible THEN 40 * FP ELSE 0)
        cd == _clamp_score(d, "D", warnings)
        cr == _clamp_score(r, "R", cd.warnings)
        cp == _clamp_score(p, "P", cr.warnings)
        co == _clamp_score(o, "O", cp.warnings)
        cu == _clamp_score(u, "U", co.warnings)
    IN  [components |->
            [k \in KeySet |->
                CASE k = "D" -> cd.value [] k = "R" -> cr.value [] k = "P" -> cp.value
                  [] k = "O" -> co.value [] k = "U" -> cu.value],
         warnings |-> cu.warnings]

_collect_hard_blockers_noIdentity(s) ==
    (IF ~s.parity_checked THEN <<"missing_replay_check">> ELSE <<>>)
    \o (IF ~s.parity_passed THEN <<"parity_check_failed">> ELSE <<>>)
    \o (IF ~s.lineage_complete THEN <<"missing_lineage_fields">> ELSE <<>>)
    \o (IF s.policy_block_reasons # <<>> THEN <<"policy_block_reasons">> ELSE <<>>)

_collect_hard_blockers(s) ==
    (IF ~s.run_identity_present THEN <<"missing_run_identity">> ELSE <<>>)
    \o (IF ~s.parity_checked THEN <<"missing_replay_check">> ELSE <<>>)
    \o (IF ~s.parity_passed THEN <<"parity_check_failed">> ELSE <<>>)
    \o (IF ~s.lineage_complete THEN <<"missing_lineage_fields">> ELSE <<>>)
    \o (IF s.policy_block_reasons # <<>> THEN <<"policy_block_reasons">> ELSE <<>>)

_top_blockers_strictR(hard_blockers, components, s) ==
    IF hard_blockers # <<>> THEN Take(hard_blockers, 3)
    ELSE
        LET blockers ==
                (IF components["R"] < 80 * FP /\ ~s.validation_passed
                    THEN <<"validation_not_completed">> ELSE <<>>)
                \o (IF components["R"] < 75 * FP /\ ~s.crv_available
                    THEN <<"crv_unavailable">> ELSE <<>>)
                \o (IF components["O"] < 80 * FP /\ s.startup_status # "healthy"
                    THEN <<"ops_degraded">> ELSE <<>>)
                \o (IF components["O"] < 80 * FP /\ s.evidence_stale
                    THEN <<"evidence_stale">> ELSE <<>>)
                \o (IF s.environment_caveat = "contract_invalid_gate_path"
                    THEN <<"contract_invalid_gate_path">> ELSE <<>>)
                \o (IF components["U"] < 80 * FP /\ s.contract_mismatch
                    THEN <<"ui_contract_mismatch">> ELSE <<>>)
        IN  IF blockers = <<>> THEN <<"monitor_inputs">>
            ELSE Take(Dedupe(blockers), 3)

_top_blockers(hard_blockers, components, s) ==
    IF hard_blockers # <<>> THEN Take(hard_blockers, 3)
    ELSE
        LET blockers ==
                (IF components["R"] < 80 * FP /\ ~s.validation_passed
                    THEN <<"validation_not_completed">> ELSE <<>>)
                \o (IF components["R"] < 80 * FP /\ ~s.crv_available
                    THEN <<"crv_unavailable">> ELSE <<>>)
                \o (IF components["O"] < 80 * FP /\ s.startup_status # "healthy"
                    THEN <<"ops_degraded">> ELSE <<>>)
                \o (IF components["O"] < 80 * FP /\ s.evidence_stale
                    THEN <<"evidence_stale">> ELSE <<>>)
                \o (IF s.environment_caveat = "contract_invalid_gate_path"
                    THEN <<"contract_invalid_gate_path">> ELSE <<>>)
                \o (IF components["U"] < 80 * FP /\ s.contract_mismatch
                    THEN <<"ui_contract_mismatch">> ELSE <<>>)
        IN  IF blockers = <<>> THEN <<"monitor_inputs">>
            ELSE Take(Dedupe(blockers), 3)

RECURSIVE NextActionsFrom(_, _, _)
NextActionsFrom(blockers, i, actions) ==
    IF i > Len(blockers) THEN actions
    ELSE LET b == blockers[i]
             known == b \in DOMAIN BLOCKER_ACTIONS
         IN  NextActionsFrom(blockers, i + 1,
                IF known /\ BLOCKER_ACTIONS[b] \notin Range(actions)
                    THEN Append(actions, BLOCKER_ACTIONS[b]) ELSE actions)

_next_actions_two(blockers) ==
    LET actions == NextActionsFrom(blockers, 1, <<>>)
    IN  Take(IF actions = <<>>
                THEN <<"No immediate blockers. Continue monitoring readiness metrics.">>
                ELSE actions, 2)

_next_actions(blockers) ==
    LET actions == NextActionsFrom(blockers, 1, <<>>)
    IN  Take(IF actions = <<>>
                THEN <<"No immediate blockers. Continue monitoring readiness metrics.">>
                ELSE actions, 3)

\* round(x, 3) on a non-negative fixed-point value: nearest multiple of
\* FP/1000 ticks, ties to the even thousandth.
Round3(x) ==
    LET q == FP \div 1000
        lo == (x \div q) * q
        rem == x % q
    IN  IF 2 * rem < q THEN lo
        ELSE IF 2 * rem > q THEN lo + q
        ELSE IF (x \div q) % 2 = 0 THEN lo ELSE lo + q

\* round(a - b, 3) for a difference that may be negative
Round3Signed(x) == IF x < 0 THEN -Round3(-x) ELSE Round3(x)

_component_delta_reversed(current, previous) ==
    IF previous.isNone \/ DOMAIN previous.val = {} THEN [k \in DOMAIN current |-> 0]
    ELSE [k \in DOMAIN current |->
            Round3Signed((IF k \in DOMAIN previous.val THEN previous.val[k] ELSE 0)
                - current[k])]

\* previous: Optional components map (partial maps allowed: .get(key, 0.0))
_component_delta(current, previous) ==
    IF previous.isNone \/ DOMAIN previous.val = {} THEN [k \in DOMAIN current |-> 0]
    ELSE [k \in DOMAIN current |->
            Round3Signed(current[k]
                - (IF k \in DOMAIN previous.val THEN previous.val[k] ELSE 0))]

\* keys in the order of the delta map (D, R, P, O, U)
_changed_components(delta) ==
    SelectSeq(Keys, LAMBDA k : k \in DOMAIN delta /\ Abs(delta[k]) >= FP \div 1000)

(***************************************************************************)
(* build_readiness_payload                                                 *)
(***************************************************************************)
\* "weights or DEFAULT_WEIGHTS": None and the empty dict are both falsy.
OrDefault(arg, default) ==
    IF arg.isNone \/ DOMAIN arg.val = {} THEN default ELSE arg.val

\* sum(weights[key] * components[key] for key in ("D","R","P","O","U"));
\* component scores are whole points, so the fixed-point product is exact.
RECURSIVE WeightedSumFrom(_, _, _)
WeightedSumFrom(w, components, i) ==
    IF i > Len(Keys) THEN 0
    ELSE w[Keys[i]] * (components[Keys[i]] \div FP) + WeightedSumFrom(w, components, i + 1)

WeightedSum_dropU(w, components) ==
    WeightedSumFrom(w, components, 1) - w["U"] * (components["U"] \div FP)
WeightedSum(w, components) == WeightedSumFrom(w, components, 1)

FinalBand_amberWhenBlocked(blocked, band) == IF blocked THEN "Amber" ELSE band
FinalBand_noOverride(blocked, band) == band
FinalBand(blocked, band) == IF blocked THEN "Red" ELSE band

Raised(err) == [status |-> "raised", error |-> err, value |-> <<>>]
Returned(v) == [status |-> "ok", error |-> "", value |-> v]
NotCalled == [status |-> "none", error |-> "", value |-> <<>>]

build_readiness_payload(strategy_id, s, previous_scorecard, weights_arg, thresholds_arg) ==
    LET weights == OrDefault(weights_arg, DEFAULT_WEIGHTS)
        thresholds == OrDefault(thresholds_arg, DEFAULT_THRESHOLDS)
        cs == _compute_component_scores(s, <<>>)
        components == cs.components
    IN  IF ~(KeySet \subseteq DOMAIN weights) THEN Raised("KeyError")
        ELSE
        LET clamped == _clamp_score(WeightedSum(weights, components), "S", cs.warnings)
            score == Round3(clamped.value)
            warnings == clamped.warnings
            hard_blockers == _collect_hard_blockers(s)
        IN  IF "green" \notin DOMAIN thresholds THEN Raised("KeyError")
            ELSE IF score < thresholds["green"] * FP /\ "amber" \notin DOMAIN thresholds
                THEN Raised("KeyError")
            ELSE
            LET band == _decision_band(score, thresholds)
                blocked == Len(hard_blockers) > 0
                final_band == FinalBand(blocked, band)
                top_blockers == _top_blockers(hard_blockers, components, s)
                actions == _next_actions(top_blockers)
                previous_components ==
                    IF previous_scorecard.isNone THEN None
                    ELSE previous_scorecard.val.components
                previous_score ==
                    IF previous_scorecard.isNone THEN None
                    ELSE previous_scorecard.val.score
                delta == _component_delta(components, previous_components)
                changed == _changed_components(delta)
                kpi_events ==
                    [false_promotion_proxy |->
                        IF blocked /\ score >= thresholds["green"] * FP THEN 1 ELSE 0,
                     reproducibility_pass |->
                        IF s.parity_checked /\ s.parity_passed /\ s.run_identity_present
                            THEN 1 ELSE 0,
                     onboarding_reliability |->
                        IF s.startup_status = "healthy" THEN 1 ELSE 0]
            IN  Returned(
                    [strategy_id |-> strategy_id,
                     scorecard_version |-> SCORECARD_VERSION,
                     weights |-> weights,
                     thresholds |-> thresholds,
                     components |-> components,
                     score |-> score,
                     band |-> final_band,
                     blocked |-> blocked,
                     hard_blockers |-> hard_blockers,
                     top_blockers |-> top_blockers,
                     next_actions |-> actions,
                     warnings |-> warnings,
                     maturity_label |->
                        IF final_band \in {"Green", "Amber"} THEN "validated" ELSE "experimental",
                     transition |->
                        [previous_score |-> previous_score,
                         score_delta |->
                            IF previous_score.isNone THEN None
                            ELSE Some(Round3Signed(score - previous_score.val)),
                         component_delta |-> delta,
                         changed_components |-> changed],
                     operational_context |->
                        [startup_status |-> s.startup_status,
                         startup_reasons |-> s.startup_reasons,
                         evidence_stale |-> s.evidence_stale,
                         environment_caveat |-> s.environment_caveat,
                         evidence_classification |-> s.evidence_classification,
                         evidence_timestamp |-> s.evidence_timestamp,
                         contract_mismatch |-> s.contract_mismatch,
                         maturity_label_visible |-> s.maturity_label_visible],
                     kpi_events |-> kpi_events])

\* Keyword arguments the scorer is called with.
WeightsArgs ==
    {None,
     Some(<<>>),
     Some([k \in KeySet |->
        CASE k = "D" -> 33333 [] k = "R" -> 16667 [] k = "P" -> 25000
          [] k = "O" -> 12500 [] k = "U" -> 12500]),
     Some([k \in KeySet |-> 50000]),
     Some([k \in KeySet |-> IF k = "D" THEN -100000 ELSE 50000]),
     Some([k \in {"D"} |-> 100000])}

ThresholdsArgs ==
    {None,
     Some([green |-> 90, amber |-> 50]),
     Some([green |-> 60, amber |-> 80]),
     Some([green |-> 85])}

PreviousArgs ==
    {None,
     Some([components |-> Some([k \in KeySet |-> IF k = "R" THEN 50 * FP ELSE 100 * FP]),
           score |-> Some(90 * FP)])}

NoCall == [via |-> "none", weights |-> None, thresholds |-> None, previous_scorecard |-> None]

\* The argument combinations drawn: every weights override with every
\* thresholds override, and the default configuration with each previous scorecard.
CallArgs ==
    {[via |-> "function", weights |-> w, thresholds |-> t, previous_scorecard |-> None] :
        w \in WeightsArgs, t \in ThresholdsArgs}
    \cup {[via |-> "function", weights |-> None, thresholds |-> None,
           previous_scorecard |-> prev] : prev \in PreviousArgs}

(***************************************************************************)
(* parity_config.py and engine_backtest._within_tolerance                  *)
(***************************************************************************)
MU == 1000              \* fixed-point ticks per unit of an engine metric

MetricKeys == <<"total_return", "sharpe_ratio", "max_drawdown">>

\* 0.01 for each tracked metric
PARITY_TOLERANCES == [k \in Range(MetricKeys) |-> MU \div 100]

\* dict.get(key, default)
Get(m, k, default) == IF k \in DOMAIN m THEN m[k] ELSE default

metric_within_tolerance_strict(metric, lhs, rhs) ==
    Abs(lhs - rhs) < Get(PARITY_TOLERANCES, metric, 0)
metric_within_tolerance(metric, lhs, rhs) ==
    Abs(lhs - rhs) <= Get(PARITY_TOLERANCES, metric, 0)

_within_tolerance(a, b) ==
    LET bad == {k \in DOMAIN PARITY_TOLERANCES :
                    ~metric_within_tolerance(k, Get(a, k, 0), Get(b, k, 0))}
        violations ==
            [k \in bad |->
                [a |-> Get(a, k, 0), b |-> Get(b, k, 0),
                 delta |-> Abs(Get(a, k, 0) - Get(b, k, 0)),
                 tolerance |-> PARITY_TOLERANCES[k]]]
    IN  [passed |-> bad = {}, violations |-> violations]

(***************************************************************************)
(* gate_verification.py: GateVerificationService                           *)
(*                                                                         *)
(* A metrics dict is a function from key names to values; a key that is    *)
(* absent from the dict is absent from the domain.  Dict- and list-valued  *)
(* entries are functions and sequences, truthy iff their domain is not     *)
(* empty.  Text built with f-strings is a record [text, value].            *)
(***************************************************************************)
Text(t) == [text |-> t, value |-> 0]
TextWith(t, v) == [text |-> t, value |-> v]

\* A recommendation f"{text} from {actual:.2f} to {required}"
Rec(t, from, to) == [text |-> t, from |-> from, to |-> to]

\* bool(x) of a dict/list-valued entry that may be missing (None)
Truthy(m, k) == k \in DOMAIN m /\ DOMAIN m[k] # {}

\* f"{x:.2f}": x in ticks of 1/MU, rounded half-even to hundredths
Fmt2(x) ==
    LET q == MU \div 100
        a == Abs(x)
        lo == (a \div q) * q
        rem == a % q
        r == IF 2 * rem < q THEN lo
             ELSE IF 2 * rem > q THEN lo + q
             ELSE IF (a \div q) % 2 = 0 THEN lo ELSE lo + q
    IN  IF x < 0 THEN -r ELSE r

GateCheck(name, passed, description, message) ==
    [check_name |-> name, passed |-> passed, description |-> description,
     message |-> message, severity |-> "error"]

GVS_DEFAULT_THRESHOLDS ==
    [min_sharpe |-> MU, max_drawdown |-> MU \div 5, min_return |-> MU \div 10]

\* sum(1 for c in checks if c.passed)
RECURSIVE PassedCount(_)
PassedCount(checks) ==
    IF checks = <<>> THEN 0
    ELSE (IF Head(checks).passed THEN 1 ELSE 0) + PassedCount(Tail(checks))

AllPassed_first(checks) == checks # <<>> /\ checks[1].passed
\* all(check.passed for check in checks)
AllPassed(checks) == \A i \in 1..Len(checks) : checks[i].passed

GateScore_wholePoints(checks) ==
    IF checks = <<>> THEN 0 ELSE (PassedCount(checks) * 100) \div Len(checks)
\* round((passed / len(checks)) * 100, 1), in tenths of a point
GateScore(checks) ==
    IF checks = <<>> THEN 0
    ELSE LET num == PassedCount(checks) * 1000
             den == Len(checks)
             lo == num \div den
             rem == num % den
         IN  IF 2 * rem < den THEN lo
             ELSE IF 2 * rem > den THEN lo + 1
             ELSE IF lo % 2 = 0 THEN lo ELSE lo + 1

GateVerifyResponse(strategy_id, gate_type, passed, gate_status, checks, score, recs) ==
    [strategy_id |-> strategy_id, gate_type |-> gate_type, passed |-> passed,
     gate_status |-> gate_status, checks |-> checks, score |-> score,
     recommendations |-> recs]

\* "if backtest_metrics:" - neither None nor an empty dict
HasMetrics(backtest_metrics) ==
    ~backtest_metrics.isNone /\ DOMAIN backtest_metrics.val # {}

\* "Fix: {check_name} - {description}" for every failing check, in order
RECURSIVE FixRecommendations(_)
FixRecommendations(checks) ==
    IF checks = <<>> THEN <<>>
    ELSE (IF ~Head(checks).passed
            THEN <<[text |-> "Fix", check_name |-> Head(checks).check_name,
                    description |-> Head(checks).description]>>
            ELSE <<>>)
         \o FixRecommendations(Tail(checks))

\* bool(backtest_metrics.get("replay_pass", False))
ReplayEvidence(m) == Get(m, "replay_pass", FALSE)

verify_dev_gate(strategy_id, backtest_metrics, strategy_exists) ==
    LET has_backtest == ~backtest_metrics.isNone
        m == backtest_metrics.val
        has_identity == HasMetrics(backtest_metrics) /\ Truthy(m, "run_identity")
        replay_pass == HasMetrics(backtest_metrics) /\ ReplayEvidence(m)
        checks ==
            << GateCheck("Strategy Exists", strategy_exists,
                    Text("Strategy artifact must exist"), Text("strategy_id")),
               GateCheck("Completed Backtest", has_backtest,
                    Text("Completed backtest artifact is required"),
                    Text(IF has_backtest THEN "backtest available" ELSE "missing backtest")),
               GateCheck("Run Identity Present", has_identity,
                    Text("Canonical run identity must be persisted"),
                    Text(IF has_identity THEN "run_identity" ELSE "missing run_identity")),
               GateCheck("Replay Determinism", replay_pass,
                    Text("Strategy produces consistent results"),
                    Text(IF replay_pass THEN "Replay parity passed"
                         ELSE "Replay parity failed or missing")) >>
        passed == AllPassed(checks)
    IN  GateVerifyResponse(strategy_id, "dev", passed,
            IF passed THEN "passed" ELSE "failed", checks, GateScore(checks),
            IF ~passed THEN FixRecommendations(checks) ELSE <<>>)

\* {**DEFAULT_THRESHOLDS, **(thresholds or {})}
MergeThresholds(thresholds) ==
    LET over == IF thresholds.isNone THEN <<>> ELSE thresholds.val
    IN  [k \in DOMAIN GVS_DEFAULT_THRESHOLDS \cup DOMAIN over |->
            IF k \in DOMAIN over THEN over[k] ELSE GVS_DEFAULT_THRESHOLDS[k]]

\* The drawdown comparison of the CRV gate.
DrawdownWithinCap_strict(max_drawdown, cap) == max_drawdown < cap
DrawdownWithinCap(max_drawdown, cap) == max_drawdown <= cap

verify_crv_gate(strategy_id, backtest_metrics, thresholds) ==
    LET thresh == MergeThresholds(thresholds)
    IN  IF ~HasMetrics(backtest_metrics) THEN
            GateVerifyResponse(strategy_id, "crv", FALSE, "blocked",
                << GateCheck("Backtest Metrics Available", FALSE,
                        Text("Risk metrics required for CRV gate"),
                        Text("missing backtest metrics")) >>,
                0,
                << Rec("Complete backtest to obtain risk metrics", 0, 0) >>)
        ELSE
            LET m == backtest_metrics.val
                sharpe_ratio == Get(m, "sharpe_ratio", 0)
                max_drawdown == Get(m, "max_drawdown", MU)
                total_return == Get(m, "total_return", 0)
                sharpe_pass == sharpe_ratio >= thresh["min_sharpe"]
                drawdown_pass == DrawdownWithinCap(max_drawdown, thresh["max_drawdown"])
                return_pass == total_return >= thresh["min_return"]
                checks ==
                    << GateCheck("Sharpe Ratio", sharpe_pass,
                            TextWith("Sharpe ratio must be >=", thresh["min_sharpe"]),
                            TextWith("actual", Fmt2(sharpe_ratio))),
                       GateCheck("Max Drawdown", drawdown_pass,
                            TextWith("Max drawdown must be <=", thresh["max_drawdown"]),
                            TextWith("actual", Fmt2(max_drawdown))),
                       GateCheck("Total Return", return_pass,
                            TextWith("Total return must be >=", thresh["min_return"]),
                            TextWith("actual", Fmt2(total_return))) >>
                passed == AllPassed(checks)
                recommendations ==
                    (IF ~sharpe_pass
                        THEN <<Rec("Improve Sharpe ratio", Fmt2(sharpe_ratio),
                                thresh["min_sharpe"])>> ELSE <<>>)
                    \o (IF ~drawdown_pass
                        THEN <<Rec("Reduce max drawdown", Fmt2(max_drawdown),
                                thresh["max_drawdown"])>> ELSE <<>>)
                    \o (IF ~return_pass
                        THEN <<Rec("Increase total return", Fmt2(total_return),
                                thresh["min_return"])>> ELSE <<>>)
            IN  GateVerifyResponse(strategy_id, "crv", passed,
                    IF passed THEN "passed" ELSE "failed", checks, GateScore(checks),
                    recommendations)

ValidationCompleted_present(validation_metrics) ==
    ~validation_metrics.isNone /\ DOMAIN validation_metrics.val # {}
\* validation_passed: "if validation_metrics:
\*     validation_passed = validation_metrics.get("status") == "completed"
ValidationCompleted(validation_metrics) ==
    /\ ~validation_metrics.isNone
    /\ DOMAIN validation_metrics.val # {}
    /\ Get(validation_metrics.val, "status", "None") = "completed"

verify_product_gate(strategy_id, backtest_metrics, validation_metrics, thresholds, strategy_exists) ==
    LET dev_result == verify_dev_gate(strategy_id, backtest_metrics, strategy_exists)
        crv_result == verify_crv_gate(strategy_id, backtest_metrics, thresholds)
        validation_passed == ValidationCompleted(validation_metrics)
        all_checks ==
            dev_result.checks \o crv_result.checks
            \o << GateCheck("Walk-Forward Validation", validation_passed,
                    Text("Strategy must pass walk-forward validation"),
                    Text(IF validation_passed THEN "validation passed"
                         ELSE "validation missing or failed")) >>
        passed == AllPassed(all_checks)
        recommendations ==
            (IF ~dev_result.passed
                THEN <<Rec("Complete dev gate requirements first", 0, 0)>>
                ELSE <<>>)
            \o (IF ~crv_result.passed
                THEN crv_result.recommendations
                ELSE <<>>)
            \o (IF ~validation_passed
                THEN <<Rec("Complete walk-forward validation", 0, 0)>>
                ELSE <<>>)
    IN  GateVerifyResponse(strategy_id, "product", passed,
            IF passed THEN "passed" ELSE "failed", all_checks, GateScore(all_checks),
            recommendations)

(***************************************************************************)
(* engine_backtest.py                                                      *)
(*                                                                         *)
(* The external engine and the file system are the environment: `world`    *)
(* gives the files that exist (path -> contents), the BACKTEST_DATA_PATH   *)
(* setting, the engine's version answer and the outcome of the primary and *)
(* of the replay invocation.  An invocation outcome is                     *)
(*   "oserror"    the process could not be started (subprocess.run raises) *)
(*   "hangs"      the process was started and never exits; subprocess.run  *)
(*                is called without a timeout and waits for it, so the     *)
(*                call of run_engine_backtest does not return (status      *)
(*                "hangs" of its outcome: there is no outcome)             *)
(*   "nonzero"    the process exited with a non-zero code                  *)
(*   "no_stats"   exit code 0 but no stats.json in the output directory    *)
(*   "malformed"  exit code 0 and a stats.json that json.load rejects      *)
(*   "ok"         exit code 0 and a stats.json holding `stats`             *)
(* Statistics derived from the equity curve and the trades (win_rate,      *)
(* profit_factor, avg_trade, calmar_ratio, sortino_ratio) and the          *)
(* crv_violations list are read by no gate and are left out of the metrics *)
(* map.                                                                    *)
(***************************************************************************)
DefaultDataPath == "examples/alpaca_data.parquet"

\* hashlib.sha256(...).hexdigest(): an injective tag of the hashed content
_sha256_text(text) == [sha256 |-> text]
_sha256_file_path(path, world) == [sha256 |-> path]
_sha256_file(path, world) == [sha256 |-> world.files[path]]

\* json.dumps(spec, sort_keys=True): the key order of the dict is erased
JsonDumpsSorted(spec) == [json |-> spec]

Max(a, b) == IF a >= b THEN a ELSE b

_engine_version(world) ==
    IF world.version = "" THEN "unknown" ELSE world.version

_build_spec(strategy, request_data) ==
    LET parameters == Get(strategy, "parameters", <<>>)
        lookback == Get(parameters, "lookback", 20)
        vol_target == Get(parameters, "vol_target", 15 * (MU \div 100))
        instruments == Get(request_data, "instruments", <<"SPY">>)
        symbol == IF instruments # <<>> THEN instruments[1] ELSE "SPY"
    IN  [initial_cash |-> Get(request_data, "initial_capital", 100000),
         seed |-> Get(request_data, "seed", 42),
         data_pipeline |-> "canonical_tier1",
         strategy |->
            [type |-> "ts_momentum",
             symbol |-> symbol,
             lookback |-> Max(2, lookback),
             vol_target |-> Max(MU \div 100, vol_target),
             vol_lookback |-> Max(2, lookback)],
         cost_model |->
            [type |-> "fixed_per_share",
             cost_per_share |-> 5,
             minimum_commission |-> MU]]

\* data_source: "" stands for None / empty
_default_data_path(data_source, world) ==
    IF data_source # "" /\ data_source # "default" /\ data_source \in DOMAIN world.files
        THEN data_source
    ELSE IF data_source # "" /\ data_source # "default"
            /\ ("data/" \o data_source) \in DOMAIN world.files
        THEN "data/" \o data_source
    ELSE IF world.configured # "" THEN world.configured
    ELSE DefaultDataPath

_normalize_metrics(stats) ==
    [total_return |-> Get(stats, "total_return", 0) * 100,
     sharpe_ratio |-> Get(stats, "sharpe_ratio", 0),
     max_drawdown |-> -Abs(Get(stats, "max_drawdown", 0) * 100),
     total_trades |-> Get(stats, "num_trades", 0)]

\* Adds or replaces entries of a dict.
Update(m, more) ==
    [k \in DOMAIN m \cup DOMAIN more |-> IF k \in DOMAIN more THEN more[k] ELSE m[k]]

\* The replay block of run_engine_backtest (lines 255-274): the parity
\* status, or the exception that leaves the block.
ReplayStatus(metrics, run_replay_check, replay) ==
    IF ~run_replay_check THEN
        Returned([checked |-> FALSE, passed |-> TRUE, violations |-> <<>>])
    ELSE IF replay.kind = "oserror" THEN Raised("OSError")
    ELSE IF replay.kind = "hangs" THEN [status |-> "hangs", error |-> "", value |-> <<>>]
    ELSE IF replay.kind = "ok" \/ replay.kind = "malformed" THEN
        \* returncode == 0 and stats.json exists
        IF replay.kind = "malformed" THEN Raised("JSONDecodeError")
        ELSE LET cmp == _within_tolerance(metrics, _normalize_metrics(replay.stats))
             IN  Returned([checked |-> TRUE, passed |-> cmp.passed,
                           violations |-> cmp.violations])
    ELSE Returned([checked |-> TRUE, passed |-> FALSE,
                   violations |-> [engine |-> "replay_failed"]])

run_engine_backtest(strategy, request_data, run_replay_check, world) ==
    LET data_source == Get(request_data, "data_source", "")
        data_path == _default_data_path(data_source, world)
    IN  IF data_path \notin DOMAIN world.files THEN Raised("RuntimeError: data file not found")
        ELSE
        LET spec == _build_spec(strategy, request_data)
            spec_text == JsonDumpsSorted(spec)
            spec_hash == _sha256_text(spec_text)
            data_hash == _sha256_file(data_path, world)
            engine_version == _engine_version(world)
            primary == world.primary
        IN  IF primary.kind = "oserror" THEN Raised("OSError")
            ELSE IF primary.kind = "hangs"
                THEN [status |-> "hangs", error |-> "", value |-> <<>>]
            ELSE IF primary.kind = "nonzero" THEN Raised("RuntimeError: engine backtest failed")
            ELSE IF primary.kind = "no_stats" THEN Raised("FileNotFoundError")
            ELSE IF primary.kind = "malformed" THEN Raised("JSONDecodeError")
            ELSE
            LET base == _normalize_metrics(primary.stats)
                crv_passed == world.crv = "passed"
                replay_status == ReplayStatus(base, run_replay_check, world.replay)
            IN  IF replay_status.status # "ok" THEN replay_status
                ELSE
                LET run_identity ==
                        [spec_hash |-> spec_hash, data_hash |-> data_hash,
                         seed |-> [str |-> spec.seed], engine_version |-> engine_version]
                    metrics ==
                        Update(base,
                            [crv_passed |-> crv_passed,
                             parity_check |-> replay_status.value,
                             replay_pass |-> replay_status.value.passed,
                             run_identity |-> run_identity,
                             data_provenance |->
                                [source |-> IF data_source = "" THEN "default" ELSE data_source,
                                 path |-> data_path,
                                 data_hash |-> data_hash],
                             transformation_lineage |->
                                <<"build_spec", "execute_engine", "normalize_metrics">>,
                             policy_outcomes |->
                                [crv_passed |-> crv_passed,
                                 replay_pass |-> replay_status.value.passed],
                             artifact_links |->
                                [stats |-> "stats.json", trades |-> "trades.csv",
                                 equity_curve |-> "equity_curve.csv",
                                 crv |-> "crv_report.json"],
                             execution_mode |-> "engine"])
                IN  Returned([metrics |-> metrics, run_identity |-> run_identity])

(***************************************************************************)
(* services/governance.py and services/release_gates.py                    *)
(***************************************************************************)
REQUIRED_LINEAGE_FIELDS ==
    <<"run_identity", "data_provenance", "transformation_lineage", "policy_outcomes",
      "artifact_links">>

\* metrics is the optional JSON column; "not metrics.get(field)" is true of a
\* missing key and of an empty dict or list.
check_lineage_completeness_present(metrics) ==
    IF metrics.isNone THEN [passed |-> FALSE, missing |-> REQUIRED_LINEAGE_FIELDS]
    ELSE LET missing == SelectSeq(REQUIRED_LINEAGE_FIELDS,
                                  LAMBDA field : field \notin DOMAIN metrics.val)
         IN  [passed |-> Len(missing) = 0, missing |-> missing]

check_lineage_completeness(metrics) ==
    IF metrics.isNone THEN [passed |-> FALSE, missing |-> REQUIRED_LINEAGE_FIELDS]
    ELSE LET missing == SelectSeq(REQUIRED_LINEAGE_FIELDS,
                                  LAMBDA field : ~Truthy(metrics.val, field))
         IN  [passed |-> Len(missing) = 0, missing |-> missing]

build_governance_report(strategy_id, checks) ==
    [strategy_id |-> strategy_id,
     passed |-> \A k \in DOMAIN checks : checks[k],
     checks |-> checks]

\* The keys of CAPABILITY_THRESHOLDS["production"], in dict order
CapabilityKeys == <<"truth_parity", "determinism", "contract_parity", "lineage_completeness">>

CAPABILITY_THRESHOLDS ==
    [production |-> [truth_parity |-> TRUE, determinism |-> TRUE,
                     contract_parity |-> TRUE, lineage_completeness |-> TRUE],
     validated |-> [truth_parity |-> TRUE, determinism |-> TRUE,
                    contract_parity |-> FALSE, lineage_completeness |-> TRUE],
     experimental |-> [truth_parity |-> FALSE, determinism |-> FALSE,
                       contract_parity |-> FALSE, lineage_completeness |-> FALSE]]

determine_maturity_noLineage(evidence) ==
    IF \A k \in Range(CapabilityKeys) :
            Get(evidence, k, FALSE) = CAPABILITY_THRESHOLDS.production[k]
        THEN "production"
    ELSE IF /\ Get(evidence, "truth_parity", FALSE)
            /\ Get(evidence, "determinism", FALSE)
        THEN "validated"
    ELSE "experimental"

determine_maturity(evidence) ==
    IF \A k \in Range(CapabilityKeys) :
            Get(evidence, k, FALSE) = CAPABILITY_THRESHOLDS.production[k]
        THEN "production"
    ELSE IF /\ Get(evidence, "truth_parity", FALSE)
            /\ Get(evidence, "determinism", FALSE)
            /\ Get(evidence, "lineage_completeness", FALSE)
        THEN "validated"
    ELSE "experimental"

\* f"{key}_failed"
FailedReason ==
    [truth_parity |-> "truth_parity_failed", determinism |-> "determinism_failed",
     contract_parity |-> "contract_parity_failed",
     lineage_completeness |-> "lineage_completeness_failed"]

evaluate_release_gate_validated(evidence) ==
    LET failing == SelectSeq(CapabilityKeys,
                             LAMBDA key : CAPABILITY_THRESHOLDS.validated[key]
                                          /\ ~Get(evidence, key, FALSE))
        reasons == [i \in 1..Len(failing) |-> FailedReason[failing[i]]]
    IN  [passed |-> Len(reasons) = 0, reasons |-> reasons,
         maturity |-> determine_maturity(evidence)]

evaluate_release_gate(evidence) ==
    LET failing == SelectSeq(CapabilityKeys,
                             LAMBDA key : CAPABILITY_THRESHOLDS.production[key]
                                          /\ ~Get(evidence, key, FALSE))
        reasons == [i \in 1..Len(failing) |-> FailedReason[failing[i]]]
    IN  [passed |-> Len(reasons) = 0, reasons |-> reasons,
         maturity |-> determine_maturity(evidence)]

(***************************************************************************)
(* database/models.py and database/crud.py.  A table is a sequence of rows *)
(* in creation order and a row's id is its position (the code draws a      *)
(* uuid4).  Nullable columns are optional values.  The engine is           *)
(* PostgreSQL (database/session.py), which enforces the foreign keys to    *)
(* strategies.id at commit.  The columns trades and equity_curve are       *)
(* written together and are one column here; duration_seconds is read by   *)
(* no gate and is left out.                                                *)
(***************************************************************************)
DefaultSettings ==
    [enable_truth_backtests |-> TRUE, enable_truth_validation |-> TRUE,
     enable_truth_gates |-> TRUE, enable_replay_check |-> TRUE,
     api_contract_parity |-> TRUE]

StrategyDB_get(strategyTable, strategy_id) ==
    IF strategy_id \in DOMAIN strategyTable THEN Some(strategyTable[strategy_id]) ELSE None

BacktestDB_create(backtestTable, strategy_id, request_data) ==
    Append(backtestTable,
           [id |-> Len(backtestTable) + 1, strategy_id |-> strategy_id,
            request |-> request_data, status |-> "pending", error_message |-> None,
            metrics |-> None, trades |-> None, completed_at |-> None])

BacktestDB_update_running(backtestTable, backtest_id) ==
    [backtestTable EXCEPT ![backtest_id].status = "running"]

BacktestDB_update_completed(backtestTable, backtest_id, metrics, stamp) ==
    [backtestTable EXCEPT ![backtest_id].status = "completed",
                          ![backtest_id].metrics = Some(metrics),
                          ![backtest_id].completed_at = Some(stamp)]

BacktestDB_update_failed(backtestTable, backtest_id, error_message, stamp) ==
    [backtestTable EXCEPT ![backtest_id].status = "failed",
                          ![backtest_id].error_message = Some(error_message),
                          ![backtest_id].completed_at = Some(stamp)]

\* datetime.utcnow() at a commit that stamps completed_at.  Stamps are only
\* ever compared within one table (order_by completed_at), so a stamp is
\* the number of stamps the table already holds, plus one.
utcnow(table) ==
    1 + Cardinality({i \in DOMAIN table : ~table[i].completed_at.isNone})

\* BacktestDB.get and ValidationDB.get: the row with that id, if any
RowById(table, id) == IF id \in DOMAIN table THEN Some(table[id]) ELSE None

ValidationDB_create(validationTable, strategy_id) ==
    Append(validationTable,
           [id |-> Len(validationTable) + 1, strategy_id |-> strategy_id,
            status |-> "pending", error_message |-> None, metrics |-> None,
            passed |-> None, completed_at |-> None])

ValidationDB_update_completed(validationTable, validation_id, metrics, stamp) ==
    [validationTable EXCEPT ![validation_id].status = "completed",
                            ![validation_id].metrics = Some(metrics),
                            ![validation_id].passed = Some(metrics.passed),
                            ![validation_id].completed_at = Some(stamp)]

ValidationDB_update_failed(validationTable, validation_id, error_message, stamp) ==
    [validationTable EXCEPT ![validation_id].status = "failed",
                            ![validation_id].error_message = Some(error_message),
                            ![validation_id].completed_at = Some(stamp)]

\* The GateResult row, or the IntegrityError of the commit when strategy_id
\* names no strategy.
GateResultDB_create(strategyTable, strategy_id, gate_type, passed, results) ==
    IF strategy_id \notin DOMAIN strategyTable THEN Raised("IntegrityError")
    ELSE Returned([strategy_id |-> strategy_id,
                   gate_type |-> gate_type,
                   passed |-> passed,
                   results |-> results,
                   production_ready |-> IF gate_type = "product" THEN Some(passed) ELSE None,
                   recommendation |-> IF gate_type = "product"
                                        THEN Some(results.recommendation) ELSE None])

\* query.filter(strategy_id == ..., status == "completed")
\*      .order_by(completed_at.desc()).first()
LatestCompleted(table, strategy_id) ==
    LET done == {i \in DOMAIN table : /\ table[i].strategy_id = strategy_id
                                      /\ table[i].status = "completed"}
    IN  IF done = {} THEN None
        ELSE Some(table[CHOOSE i \in done :
                    \A j \in done : table[j].completed_at.val <= table[i].completed_at.val])

(***************************************************************************)
(* routers/gates.py.  A request is [strategy_id, backtest_id,              *)
(* validation_id] with optional ids; db is [strategies, backtests,         *)
(* validations].  A handler yields [outcome, rows]: the response or the    *)
(* exception that ends the request, and the gate_results rows committed    *)
(* before it ended.  Timestamps of the responses are left out.             *)
(***************************************************************************)
HTTPException(status_code, detail) ==
    [status |-> "raised", error |-> "HTTPException",
     value |-> [status_code |-> status_code, detail |-> detail]]

_resolve_backtest(request, db) ==
    IF ~request.backtest_id.isNone THEN RowById(db.backtests, request.backtest_id.val)
    ELSE LatestCompleted(db.backtests, request.strategy_id)

_resolve_validation(request, db) ==
    IF ~request.validation_id.isNone THEN RowById(db.validations, request.validation_id.val)
    ELSE LatestCompleted(db.validations, request.strategy_id)

\* backtest.metrics if it is a dict, else {}
MetricsOrEmpty(backtest) ==
    IF ~backtest.isNone /\ ~backtest.val.metrics.isNone THEN backtest.val.metrics.val ELSE <<>>

_parity_block_reasons_unchecked(backtest) ==
    IF backtest.isNone \/ backtest.val.metrics.isNone THEN <<"missing_backtest_metrics">>
    ELSE LET metrics == backtest.val.metrics.val
             parity == Get(metrics, "parity_check", <<>>)
         IN  (IF ~Truthy(metrics, "run_identity") THEN <<"missing_run_identity">> ELSE <<>>)
             \o (IF ~Get(parity, "passed", FALSE) THEN <<"parity_check_failed">> ELSE <<>>)
_parity_block_reasons(backtest) ==
    IF backtest.isNone \/ backtest.val.metrics.isNone THEN <<"missing_backtest_metrics">>
    ELSE LET metrics == backtest.val.metrics.val
             parity == Get(metrics, "parity_check", <<>>)
         IN  (IF ~Truthy(metrics, "run_identity") THEN <<"missing_run_identity">> ELSE <<>>)
             \o (IF ~Get(parity, "checked", FALSE) THEN <<"missing_replay_check">> ELSE <<>>)
             \o (IF ~Get(parity, "passed", FALSE) THEN <<"parity_check_failed">> ELSE <<>>)

\* message is [text, value]: the literal part and the optional formatted value
DevGateCheck(check_name, passed, description, message) ==
    [check_name |-> check_name, passed |-> passed, description |-> description,
     message |-> message]

run_dev_gate(request, db) ==
    LET strategy == StrategyDB_get(db.strategies, request.strategy_id)
        backtest == _resolve_backtest(request, db)
        metrics == MetricsOrEmpty(backtest)
        has_run_identity == Truthy(metrics, "run_identity")
        replay_pass == Get(metrics, "replay_pass", FALSE)
        checks ==
            <<DevGateCheck("Strategy Exists", ~strategy.isNone,
                           "Strategy artifact must exist",
                           TextWith("strategy_id=", Some(request.strategy_id))),
              DevGateCheck("Completed Backtest", ~backtest.isNone,
                           "Completed backtest artifact is required",
                           IF backtest.isNone THEN TextWith("backtest_id=none", None)
                           ELSE TextWith("backtest_id=", Some(backtest.val.id))),
              DevGateCheck("Run Identity Present", has_run_identity,
                           "Canonical run identity must be persisted",
                           IF has_run_identity THEN TextWith("", Some(metrics["run_identity"]))
                           ELSE TextWith("missing run_identity", None)),
              DevGateCheck("Replay Determinism", replay_pass,
                           "Strategy produces consistent results",
                           IF replay_pass THEN TextWith("Replay parity passed", None)
                           ELSE TextWith("Replay parity failed or missing", None))>>
        passed == AllPassed(checks)
        gate_status == IF passed THEN "passed" ELSE "failed"
        result == [strategy_id |-> request.strategy_id, gate_status |-> gate_status,
                   passed |-> passed, checks |-> checks]
        stored == GateResultDB_create(db.strategies, request.strategy_id, "dev", passed,
                                      [checks |-> checks, gate_status |-> gate_status])
    IN  IF stored.status = "raised" THEN [outcome |-> stored, rows |-> <<>>]
        ELSE [outcome |-> Returned(result), rows |-> <<stored.value>>]

run_crv_gate(request, db) ==
    LET backtest == _resolve_backtest(request, db)
    IN  IF backtest.isNone \/ backtest.val.metrics.isNone THEN
            [outcome |-> HTTPException(404, "No completed backtest metrics found for CRV gate"),
             rows |-> <<>>]
        ELSE
            LET metrics == backtest.val.metrics.val
                min_sharpe == 8 * (MU \div 10)
                max_drawdown == -25 * MU
                min_return == 5 * MU
                actual_sharpe == Get(metrics, "sharpe_ratio", 0)
                actual_drawdown == Get(metrics, "max_drawdown", 0)
                actual_return == Get(metrics, "total_return", 0)
                sharpe_pass == actual_sharpe >= min_sharpe
                drawdown_pass == actual_drawdown >= max_drawdown
                return_pass == actual_return >= min_return
                passed == sharpe_pass /\ drawdown_pass /\ return_pass
                result == [strategy_id |-> request.strategy_id,
                           gate_status |-> IF passed THEN "passed" ELSE "failed",
                           passed |-> passed,
                           min_sharpe_threshold |-> min_sharpe,
                           max_drawdown_threshold |-> max_drawdown,
                           min_return_threshold |-> min_return,
                           actual_sharpe |-> actual_sharpe,
                           actual_drawdown |-> actual_drawdown,
                           actual_return |-> actual_return,
                           sharpe_pass |-> sharpe_pass,
                           drawdown_pass |-> drawdown_pass,
                           return_pass |-> return_pass]
                stored == GateResultDB_create(db.strategies, request.strategy_id, "crv",
                                              passed, result)
            IN  IF stored.status = "raised" THEN [outcome |-> stored, rows |-> <<>>]
                ELSE [outcome |-> Returned(result), rows |-> <<stored.value>>]

\* The part of run_product_gate after both inner gates have returned
ProductGateResult(request, db, flags, dev_gate, crv_gate) ==
    LET backtest == _resolve_backtest(request, db)
        validation == _resolve_validation(request, db)
        validation_passed == /\ ~validation.isNone
                             /\ ~validation.val.passed.isNone
                             /\ validation.val.passed.val
        parity_block_reasons == _parity_block_reasons(backtest)
        parity_passed == Len(parity_block_reasons) = 0
        lineage == check_lineage_completeness(
                        IF backtest.isNone THEN None ELSE backtest.val.metrics)
        production_ready == /\ dev_gate.passed
                            /\ crv_gate.passed
                            /\ validation_passed
                            /\ parity_passed
                            /\ lineage.passed
        governance_report ==
            build_governance_report(request.strategy_id,
                [dev_gate |-> dev_gate.passed, crv_gate |-> crv_gate.passed,
                 validation |-> validation_passed, parity |-> parity_passed,
                 lineage |-> lineage.passed])
        release_evidence ==
            [truth_parity |-> parity_passed, determinism |-> dev_gate.passed,
             contract_parity |-> flags.api_contract_parity,
             lineage_completeness |-> lineage.passed]
        release == evaluate_release_gate(release_evidence)
        recommendation == IF production_ready THEN "Ready for production deployment"
                          ELSE "Not ready for production - see gate results"
        result == [strategy_id |-> request.strategy_id,
                   production_ready |-> production_ready,
                   dev_gate |-> dev_gate,
                   crv_gate |-> crv_gate,
                   validation_passed |-> validation_passed,
                   recommendation |-> recommendation]
        metrics == MetricsOrEmpty(backtest)
        \* {...extras, **result.dict()}: the keys of result come last
        results ==
            Update([recommendation |-> recommendation,
                    parity_passed |-> parity_passed,
                    parity_block_reasons |-> parity_block_reasons,
                    lineage_passed |-> lineage.passed,
                    missing_lineage_fields |-> lineage.missing,
                    run_identity |-> IF "run_identity" \in DOMAIN metrics
                                        THEN Some(metrics["run_identity"]) ELSE None,
                    governance_report |-> governance_report,
                    release_gate |-> [passed |-> release.passed,
                                      block_reasons |-> release.reasons,
                                      maturity_label |-> release.maturity,
                                      evidence |-> release_evidence]],
                   result)
        stored == GateResultDB_create(db.strategies, request.strategy_id, "product",
                                      production_ready, results)
    IN  IF stored.status = "raised" THEN [outcome |-> stored, rows |-> <<>>]
        ELSE [outcome |-> Returned(result), rows |-> <<stored.value>>]

run_product_gate(request, db, flags) ==
    IF ~flags.enable_truth_gates THEN
        [outcome |-> HTTPException(503, "Truth gates execution is disabled by rollout flag"),
         rows |-> <<>>]
    ELSE
        LET dev == run_dev_gate(request, db)
        IN  IF dev.outcome.status = "raised" THEN dev
            ELSE LET crv == run_crv_gate(request, db)
                 IN  IF crv.outcome.status = "raised"
                        THEN [outcome |-> crv.outcome, rows |-> dev.rows \o crv.rows]
                     ELSE LET product == ProductGateResult(request, db, flags,
                                                           dev.outcome.value, crv.outcome.value)
                          IN  [outcome |-> product.outcome,
                               rows |-> dev.rows \o crv.rows \o product.rows]

(***************************************************************************)
(* The background tasks of routers/backtests.py and routers/validation.py, *)
(* one step per commit.                                                    *)
(***************************************************************************)
StrategyDict(strategy_id, strategy) ==
    [id |-> strategy_id, strategy_type |-> strategy.strategy_type,
     parameters |-> strategy.parameters]

\* _run_backtest up to its first commit
BacktestTaskStart(backtestTable, backtest_id, flags, stamp) ==
    IF ~flags.enable_truth_backtests
        THEN BacktestDB_update_failed(backtestTable, backtest_id,
                "Truth backtest execution is disabled by rollout flag", stamp)
    ELSE BacktestDB_update_running(backtestTable, backtest_id)

\* _run_backtest from the first broadcast to the commit of update_completed
\* or, on an exception, of update_failed.
\* asyncio.create_task raises RuntimeError in a thread without a running
\* event loop (loop_running = FALSE).
BacktestTaskRun(db, backtest_id, flags, loop_running, world, stamp) ==
    LET row == db.backtests[backtest_id]
        strategy == StrategyDB_get(db.strategies, row.strategy_id)
    IN  IF ~loop_running
            THEN BacktestDB_update_failed(db.backtests, backtest_id,
                                          "no running event loop", stamp)
        ELSE IF strategy.isNone
            THEN BacktestDB_update_failed(db.backtests, backtest_id,
                                          "Strategy not found", stamp)
        ELSE LET run_result == run_engine_backtest(
                                    StrategyDict(row.strategy_id, strategy.val),
                                    row.request, flags.enable_replay_check, world)
             IN  IF run_result.status = "raised"
                    THEN BacktestDB_update_failed(db.backtests, backtest_id,
                                                  run_result.error, stamp)
                 ELSE BacktestDB_update_completed(db.backtests, backtest_id,
                                                  run_result.value.metrics, stamp)

\* The summary of a walk-forward validation with one window, from the Sharpe
\* ratios of its train and test runs (ticks of 1/MU; the divisions truncate).
ValidationMetrics(train_sharpe, test_sharpe) ==
    LET degradation == IF train_sharpe # 0
                        THEN ((train_sharpe - test_sharpe) * 100 * MU) \div Abs(train_sharpe)
                        ELSE 0
        avg_degradation == degradation
        stability_score == Max(0, 100 * MU - (avg_degradation * 12) \div 10)
    IN  [num_windows |-> 1,
         avg_train_sharpe |-> train_sharpe,
         avg_test_sharpe |-> test_sharpe,
         avg_degradation |-> avg_degradation,
         stability_score |-> stability_score,
         passed |-> stability_score >= 75 * MU]

\* _run_validation up to its first commit
ValidationTaskStart(validationTable, validation_id, flags, stamp) ==
    IF ~flags.enable_truth_validation
        THEN ValidationDB_update_failed(validationTable, validation_id,
                "Truth validation execution is disabled by rollout flag", stamp)
    ELSE [validationTable EXCEPT ![validation_id].status = "running"]

\* _run_validation from the strategy lookup to update_completed /
\* update_failed, for a period that holds exactly one window.
ValidationTaskRun(db, validation_id, request_data, train_world, test_world, stamp) ==
    LET row == db.validations[validation_id]
        strategy == StrategyDB_get(db.strategies, row.strategy_id)
    IN  IF strategy.isNone
            THEN ValidationDB_update_failed(db.validations, validation_id,
                                            "Strategy not found", stamp)
        ELSE LET strategy_dict == StrategyDict(row.strategy_id, strategy.val)
                 train_result == run_engine_backtest(strategy_dict, request_data, FALSE,
                                                     train_world)
                 test_result == run_engine_backtest(strategy_dict, request_data, FALSE,
                                                    test_world)
             IN  IF train_result.status = "raised"
                    THEN ValidationDB_update_failed(db.validations, validation_id,
                                                    train_result.error, stamp)
                 ELSE IF test_result.status = "raised"
                    THEN ValidationDB_update_failed(db.validations, validation_id,
                                                    test_result.error, stamp)
                 ELSE ValidationDB_update_completed(
                        db.validations, validation_id,
                        ValidationMetrics(
                            Get(train_result.value.metrics, "sharpe_ratio", 0),
                            Get(test_result.value.metrics, "sharpe_ratio", 0)),
                        stamp)

(***************************************************************************)
(* Specification of the readiness scorer: a signals value is drawn, then   *)
(* build_readiness_payload is applied to it with drawn keyword arguments,  *)
(* or the signals are posted to the score_readiness endpoint.              *)
(***************************************************************************)
\* The all-healthy signals value (the _base_signals() of the unit tests).
BaseSignals ==
    [run_identity_present |-> TRUE,
     parity_checked |-> TRUE,
     parity_passed |-> TRUE,
     validation_passed |-> TRUE,
     crv_available |-> TRUE,
     risk_metrics_complete |-> TRUE,
     policy_block_reasons |-> <<>>,
     lineage_complete |-> TRUE,
     startup_status |-> "healthy",
     startup_reasons |-> <<>>,
     evidence_stale |-> FALSE,
     environment_caveat |-> "None",
     evidence_classification |-> "contract-valid-success",
     evidence_timestamp |-> "2026-02-16T00:00:00+00:00",
     contract_mismatch |-> FALSE,
     maturity_label_visible |-> TRUE]

\* The scorer's variables while another component is exercised.
(***************************************************************************)
(* primitives/v1/readiness.py: POST /readiness/score.  The feature flag of *)
(* the primitive is taken as enabled and the caller as authenticated.      *)
(* Building ReadinessSignals from request.signals raises TypeError unless  *)
(* the dict holds exactly the dataclass fields (none has a default).  The  *)
(* handler                                                                 *)
(* then calls build_readiness_payload(signals) with one positional         *)
(* argument; all parameters of build_readiness_payload are keyword-only    *)
(* (its parameter list opens with a bare star), so Python raises           *)
(* TypeError before the function body runs.  The handler reads the         *)
(* keys overall_score, color, recommendation and dimensions of the payload *)
(* (KeyError when one is missing) and turns TypeError into a 400 response, *)
(* any other exception into a 500 response.                                *)
(***************************************************************************)
score_readiness(request) ==
    LET positional == 1     \* build_readiness_payload(signals)
        built ==
            IF DOMAIN request.signals # DOMAIN BaseSignals THEN Raised("TypeError")
            ELSE IF positional > 0 THEN Raised("TypeError")
            ELSE build_readiness_payload(request.strategy_id, request.signals,
                                         None, None, None)
        wanted == {"overall_score", "color", "recommendation", "dimensions"}
    IN  IF built.status = "raised" /\ built.error = "TypeError"
            THEN HTTPException(400, "Invalid signals format")
        ELSE IF built.status = "raised"
            THEN HTTPException(500, "Readiness scoring failed")
        ELSE IF ~(wanted \subseteq DOMAIN built.value)
            THEN HTTPException(500, "Readiness scoring failed")
        ELSE Returned([strategy_id |-> request.strategy_id,
                       overall_score |-> built.value.overall_score,
                       color |-> built.value.color,
                       recommendation |-> built.value.recommendation,
                       dimensions |-> built.value.dimensions,
                       blockers |-> Get(built.value, "blockers", <<>>)])

ReadinessIdle ==
    /\ signals = BaseSignals
    /\ call = NoCall
    /\ payload = NotCalled

ParityIdle ==
    /\ parity_in = [a |-> <<>>, b |-> <<>>]
    /\ parity_out = <<>>

EngineIdle ==
    /\ eng_in = <<>>
    /\ eng_out = NotCalled

\* product_before: the result of the first verify_product_gate call, if any
NoVerdict == [gate |-> "none", result |-> <<>>, product_before |-> None]

VerifyIdle ==
    /\ vreq = <<>>
    /\ vres = NoVerdict

GateIdle ==
    /\ settings = DefaultSettings
    /\ strategies = <<>>
    /\ backtests = <<>>
    /\ validations = <<>>
    /\ gate_results = <<>>
    /\ gate_requests = 0
    /\ gate_response = [gate |-> "none", request |-> <<>>, evidence |-> <<>>,
                        outcome |-> NotCalled]

GovernanceIdle ==
    /\ gov_in = <<>>
    /\ gov_out = <<>>

InitReadiness ==
    /\ signals \in ReadinessSignals
    /\ call = NoCall
    /\ payload = NotCalled
    /\ ParityIdle
    /\ EngineIdle
    /\ VerifyIdle
    /\ GateIdle
    /\ GovernanceIdle

ScoreReadiness ==
    /\ payload.status = "none"
    /\ \E args \in CallArgs :
        /\ call' = args
        /\ payload' = build_readiness_payload("s-1", signals, args.previous_scorecard,
                                               args.weights, args.thresholds)
    /\ UNCHANGED <<signals, parityVars, engineVars, verifyVars, gateVars, governanceVars>>

PostReadinessScore ==
    /\ payload.status = "none"
    /\ call' = [NoCall EXCEPT !.via = "endpoint"]
    /\ payload' = score_readiness([strategy_id |-> "s-1", signals |-> signals])
    /\ UNCHANGED <<signals, parityVars, engineVars, verifyVars, gateVars, governanceVars>>

\* The next evaluation of the same strategy under the default configuration:
\* the signals are re-read (unchanged, or with validation, staleness or
\* parity flipped) and the preceding payload is handed over as
\* previous_scorecard.
ScoreAgain ==
    /\ payload.status = "ok"
    /\ call.via = "function"
    /\ call.weights.isNone
    /\ call.thresholds.isNone
    /\ \E s \in {signals,
                  [signals EXCEPT !.validation_passed = ~@],
                  [signals EXCEPT !.evidence_stale = ~@],
                  [signals EXCEPT !.parity_passed = ~@]} :
        LET previous == Some([components |-> Some(payload.value.components),
                              score |-> Some(payload.value.score)])
        IN  /\ signals' = s
            /\ call' = [call EXCEPT !.previous_scorecard = previous]
            /\ payload' = build_readiness_payload("s-1", s, previous, None, None)
    /\ UNCHANGED <<parityVars, engineVars, verifyVars, gateVars, governanceVars>>

NextReadiness == ScoreReadiness \/ PostReadinessScore \/ ScoreAgain

SpecReadiness == InitReadiness /\ [][NextReadiness]_vars

(***************************************************************************)
(* Specification of the parity comparison: two metric maps are drawn, then *)
(* _within_tolerance is applied to them.                                   *)
(***************************************************************************)

\* Metric maps over any subset of the tracked keys (a missing key reads 0.0).
ParityMaps ==
    UNION {[ks -> {-5, 0, 5, 6}] : ks \in SUBSET Range(MetricKeys)}

InitParity ==
    /\ parity_in \in [a : ParityMaps, b : ParityMaps]
    /\ parity_out = <<>>
    /\ ReadinessIdle
    /\ EngineIdle
    /\ VerifyIdle
    /\ GateIdle
    /\ GovernanceIdle

CompareParity ==
    /\ parity_out = <<>>
    /\ parity_out' = _within_tolerance(parity_in.a, parity_in.b)
    /\ UNCHANGED <<parity_in, readinessVars, engineVars, verifyVars, gateVars, governanceVars>>

NextParity == CompareParity

SpecParity == InitParity /\ [][NextParity]_vars

(***************************************************************************)
(* Specification of the gate evaluators: an evidence request is drawn,     *)
(* then one of verify_dev_gate, verify_crv_gate, verify_product_gate is    *)
(* applied to it.                                                          *)
(***************************************************************************)
\* Dicts over any choice of present keys: one value set per key, "absent"
\* marking a key left out.
RECURSIVE DictsFrom(_, _)
DictsFrom(keys, choices) ==
    IF keys = <<>> THEN {<<>>}
    ELSE LET k == Head(keys)
             rest == DictsFrom(Tail(keys), choices)
         IN  rest \cup {Update(m, [x \in {k} |-> v]) : m \in rest, v \in choices[k]}

OptionOf(S) == {None} \cup {Some(x) : x \in S}

InitVerify ==
    /\ vreq \in [strategy_id : {"strat-123"},
                 backtest_metrics :
                     OptionOf(DictsFrom(
                         <<"sharpe_ratio", "max_drawdown", "total_return", "run_identity",
                           "replay_pass">>,
                         [sharpe_ratio |-> {MU - 1, MU},
                          max_drawdown |-> {MU \div 5, MU \div 5 + 1, -12500},
                          total_return |-> {MU \div 10 - 1, MU \div 10},
                          run_identity |-> {<<>>, [spec_hash |-> "h"]},
                          replay_pass |-> {FALSE, TRUE}])),
                 validation_metrics :
                     {None, Some(<<>>), Some([status |-> "completed"]),
                      Some([status |-> "failed"])},
                 thresholds :
                     OptionOf(DictsFrom(
                         <<"min_sharpe", "max_drawdown", "min_return">>,
                         [min_sharpe |-> {MU - 1}, max_drawdown |-> {MU \div 5 + 1},
                          min_return |-> {MU \div 10 - 1}])),
                 strategy_exists : BOOLEAN]
    /\ vres = NoVerdict
    /\ ReadinessIdle
    /\ ParityIdle
    /\ EngineIdle
    /\ GateIdle
    /\ GovernanceIdle

VerifyDev ==
    /\ vres' = [gate |-> "dev",
                result |-> verify_dev_gate(vreq.strategy_id, vreq.backtest_metrics,
                                           vreq.strategy_exists),
                product_before |-> vres.product_before]
    /\ UNCHANGED <<vreq, readinessVars, parityVars, engineVars, gateVars, governanceVars>>

VerifyCrv ==
    /\ vres' = [gate |-> "crv",
                result |-> verify_crv_gate(vreq.strategy_id, vreq.backtest_metrics,
                                           vreq.thresholds),
                product_before |-> vres.product_before]
    /\ UNCHANGED <<vreq, readinessVars, parityVars, engineVars, gateVars, governanceVars>>

VerifyProduct ==
    LET result == verify_product_gate(vreq.strategy_id, vreq.backtest_metrics,
                                      vreq.validation_metrics, vreq.thresholds,
                                      vreq.strategy_exists)
    IN  /\ vres' = [gate |-> "product",
                    result |-> result,
                    product_before |-> IF vres.product_before.isNone THEN Some(result)
                                       ELSE vres.product_before]
    /\ UNCHANGED <<vreq, readinessVars, parityVars, engineVars, gateVars, governanceVars>>

NextVerify == VerifyDev \/ VerifyCrv \/ VerifyProduct

SpecVerify == InitVerify /\ [][NextVerify]_vars

(***************************************************************************)
(* Specification of an engine run: arguments and environment are drawn,    *)
(* run_engine_backtest is applied, and verify_dev_gate or verify_crv_gate  *)
(* evaluates the metrics the run returned.                                 *)
(***************************************************************************)
GoodStats == [total_return |-> 185, sharpe_ratio |-> 1750, max_drawdown |-> 125,
              num_trades |-> 12]
PoorStats == [total_return |-> 20, sharpe_ratio |-> 500, max_drawdown |-> 400,
              num_trades |-> 3]

\* The outcome of one engine invocation
Ran(stats) == [kind |-> "ok", stats |-> stats]
Broke(kind) == [kind |-> kind, stats |-> <<>>]

Invocations(statsSet) ==
    {[kind |-> k, stats |-> <<>>] :
        k \in {"oserror", "hangs", "nonzero", "no_stats", "malformed"}}
    \cup {[kind |-> "ok", stats |-> st] : st \in statsSet}

\* What a second run of the same spec may report: the same statistics, or a
\* Sharpe ratio drifting by exactly the tolerance or just beyond it.
ReplayStatsOf(st) ==
    {st, [st EXCEPT !.sharpe_ratio = @ + MU \div 100],
         [st EXCEPT !.sharpe_ratio = @ + MU \div 100 + 1]}

Worlds ==
    {[files |-> fs, configured |-> "", version |-> v, crv |-> c, primary |-> pr, replay |-> rp] :
        fs \in {<<>>,
                 [x \in {DefaultDataPath} |-> "default-bars"],
                 [x \in {DefaultDataPath, "a.parquet"} |->
                     IF x = "a.parquet" THEN "a-bars" ELSE "default-bars"]},
        v \in {"", "quant_engine 0.1.0"}, c \in {"absent", "passed"},
        pr \in Invocations({GoodStats, PoorStats}),
        rp \in Invocations(ReplayStatsOf(GoodStats))}

InitEngine ==
    /\ eng_in \in [strategy :
                      {[id |-> "s1", strategy_type |-> "ts_momentum", parameters |-> ps] :
                          ps \in {<<>>, [lookback |-> 1]}},
                   request_data :
                      {[initial_capital |-> 100000, instruments |-> <<"SPY">>, seed |-> 42,
                        data_source |-> ds] : ds \in {"", "default", "a.parquet"}},
                   run_replay_check : BOOLEAN, world : Worlds]
    /\ eng_out = NotCalled
    /\ vreq = <<>>
    /\ vres = NoVerdict
    /\ ReadinessIdle
    /\ ParityIdle
    /\ GateIdle
    /\ GovernanceIdle

\* The call returns or raises, unless an engine process it waits for never
\* exits.
RunEngine ==
    /\ eng_out.status = "none"
    /\ LET outcome == run_engine_backtest(eng_in.strategy, eng_in.request_data,
                                          eng_in.run_replay_check, eng_in.world)
       IN  /\ outcome.status # "hangs"
           /\ eng_out' = outcome
    /\ UNCHANGED <<eng_in, verifyVars, readinessVars, parityVars, gateVars, governanceVars>>

\* The metrics of a successful run are handed to verify_dev_gate.
DevGateOnRun ==
    /\ eng_out.status = "ok"
    /\ vres.gate = "none"
    /\ vreq' = [strategy_id |-> eng_in.strategy.id,
                backtest_metrics |-> Some(eng_out.value.metrics),
                validation_metrics |-> None,
                thresholds |-> None,
                strategy_exists |-> TRUE]
    /\ vres' = [gate |-> "dev",
                result |-> verify_dev_gate(eng_in.strategy.id,
                                           Some(eng_out.value.metrics), TRUE),
                product_before |-> None]
    /\ UNCHANGED <<engineVars, readinessVars, parityVars, gateVars, governanceVars>>

\* The metrics of a successful run are handed to verify_crv_gate with the
\* default thresholds.
CrvGateOnRun ==
    /\ eng_out.status = "ok"
    /\ vres.gate = "none"
    /\ vreq' = [strategy_id |-> eng_in.strategy.id,
                backtest_metrics |-> Some(eng_out.value.metrics),
                validation_metrics |-> None,
                thresholds |-> None,
                strategy_exists |-> TRUE]
    /\ vres' = [gate |-> "crv",
                result |-> verify_crv_gate(eng_in.strategy.id,
                                           Some(eng_out.value.metrics), None),
                product_before |-> None]
    /\ UNCHANGED <<engineVars, readinessVars, parityVars, gateVars, governanceVars>>

NextEngine == RunEngine \/ DevGateOnRun \/ CrvGateOnRun

SpecEngine == InitEngine /\ [][NextEngine]_vars

(***************************************************************************)
(* Specification of repeated engine runs: eng_in holds the arguments and   *)
(* the environment of two invocations of run_engine_backtest and eng_out   *)
(* their outcomes; the two run in either order.  Each invocation finds the *)
(* files and the engine of its own moment: the dataset may sit under       *)
(* another path and the engine may answer --version differently.  The      *)
(* parameters <<>> and [lookback |-> 20], and a request with and without   *)
(* seed 42, build the same spec.                                           *)
(***************************************************************************)
InitRepeat ==
    /\ eng_in \in
          [1..2 ->
              [strategy :
                  {[id |-> "s1", strategy_type |-> "ts_momentum", parameters |-> ps] :
                      ps \in {<<>>, [lookback |-> 20], [lookback |-> 1]}},
               request_data :
                  {Update([initial_capital |-> 100000, instruments |-> <<"SPY">>,
                           data_source |-> ds], seed) :
                      ds \in {"a.parquet", "b.parquet"},
                      seed \in {<<>>, [seed |-> 42], [seed |-> 7]}},
               run_replay_check : {TRUE},
               world :
                  {[files |-> [x \in {"a.parquet", "b.parquet"} |->
                                  IF x = "a.parquet" THEN "bars-1" ELSE b],
                    configured |-> "", version |-> v, crv |-> "passed",
                    primary |-> Ran(GoodStats), replay |-> Ran(GoodStats)] :
                      b \in {"bars-1", "bars-2"},
                      v \in {"", "quant_engine 0.1.0"}}]]
    /\ eng_out = [i \in 1..2 |-> NotCalled]
    /\ vreq = <<>>
    /\ vres = NoVerdict
    /\ ReadinessIdle
    /\ ParityIdle
    /\ GateIdle
    /\ GovernanceIdle

RunInvocation(i) ==
    /\ eng_out[i].status = "none"
    /\ eng_out' = [eng_out EXCEPT ![i] =
                      run_engine_backtest(eng_in[i].strategy, eng_in[i].request_data,
                                          eng_in[i].run_replay_check, eng_in[i].world)]
    /\ UNCHANGED <<eng_in, verifyVars, readinessVars, parityVars, gateVars, governanceVars>>

NextRepeat == \E i \in 1..2 : RunInvocation(i)

SpecRepeat == InitRepeat /\ [][NextRepeat]_vars

(***************************************************************************)
(* Specification of the governance checks: an evidence map and a metrics   *)
(* object are drawn, then determine_maturity, evaluate_release_gate or     *)
(* check_lineage_completeness is applied.  A key may be left out of either *)
(* dict; a lineage field is an empty or a non-empty dict; a metrics object *)
(* that is no dict is None.                                                *)
(***************************************************************************)
InitGovernance ==
    /\ gov_in \in [evidence : DictsFrom(CapabilityKeys,
                                        [k \in Range(CapabilityKeys) |-> BOOLEAN]),
                   metrics : OptionOf(DictsFrom(REQUIRED_LINEAGE_FIELDS,
                                                [f \in Range(REQUIRED_LINEAGE_FIELDS) |->
                                                    {<<>>, [id |-> "x"]}]))]
    /\ gov_out = <<>>
    /\ ReadinessIdle
    /\ ParityIdle
    /\ EngineIdle
    /\ VerifyIdle
    /\ GateIdle

DetermineMaturity ==
    /\ gov_out' = [fn |-> "determine_maturity", value |-> determine_maturity(gov_in.evidence)]
    /\ UNCHANGED <<gov_in, readinessVars, parityVars, engineVars, verifyVars, gateVars>>

EvaluateReleaseGate ==
    /\ gov_out' = [fn |-> "evaluate_release_gate",
                   value |-> evaluate_release_gate(gov_in.evidence)]
    /\ UNCHANGED <<gov_in, readinessVars, parityVars, engineVars, verifyVars, gateVars>>

CheckLineageCompleteness ==
    /\ gov_out' = [fn |-> "check_lineage_completeness",
                   value |-> check_lineage_completeness(gov_in.metrics)]
    /\ UNCHANGED <<gov_in, readinessVars, parityVars, engineVars, verifyVars, gateVars>>

NextGovernance == DetermineMaturity \/ EvaluateReleaseGate \/ CheckLineageCompleteness

SpecGovernance == InitGovernance /\ [][NextGovernance]_vars

(***************************************************************************)
(* Specification of the API over its database: strategies are created,     *)
(* backtests and validations are requested and run as background tasks,    *)
(* and the three gate endpoints are called at any moment in between.  A    *)
(* run is followed up to its MaxGateRequests-th gate request.              *)
(***************************************************************************)
MaxBacktests == 2
MaxValidations == 1
MaxGateRequests == 1

\* A generated "moderate" momentum strategy (the parameters the engine reads)
NewStrategy ==
    [strategy_type |-> "ts_momentum",
     parameters |-> [lookback |-> 20, vol_target |-> 15 * (MU \div 100)],
     status |-> "active"]

BacktestRequest ==
    [initial_capital |-> 100000, instruments |-> <<"SPY">>, seed |-> 42,
     data_source |-> "default"]


EngineWorld(primary, replay) ==
    [files |-> [x \in {DefaultDataPath} |-> "default-bars"], configured |-> "",
     version |-> "quant_engine 0.1.0", crv |-> "passed",
     primary |-> primary, replay |-> replay]

Database == [strategies |-> strategies, backtests |-> backtests, validations |-> validations]

InitGates ==
    /\ settings \in {DefaultSettings} \cup
                      {[DefaultSettings EXCEPT ![flag] = FALSE] :
                          flag \in DOMAIN DefaultSettings}
    /\ strategies = <<>>
    /\ backtests = <<>>
    /\ validations = <<>>
    /\ gate_results = <<>>
    /\ gate_requests = 0
    /\ gate_response = [gate |-> "none", request |-> <<>>, evidence |-> <<>>,
                        outcome |-> NotCalled]
    /\ ReadinessIdle
    /\ ParityIdle
    /\ EngineIdle
    /\ VerifyIdle
    /\ GovernanceIdle

otherVars == <<readinessVars, parityVars, engineVars, verifyVars, governanceVars>>

\* POST /api/v1/strategies/generate (one generated strategy)
CreateStrategy ==
    /\ gate_requests < MaxGateRequests
    /\ \E id \in {"s1"} :
        /\ id \notin DOMAIN strategies
        /\ strategies' = [x \in DOMAIN strategies \cup {id} |->
                            IF x = id THEN NewStrategy ELSE strategies[x]]
    /\ UNCHANGED <<settings, backtests, validations, gate_results, gate_requests,
                   gate_response, otherVars>>

\* POST /api/v1/backtests/run.  For an id that names no strategy the commit
\* of BacktestDB.create fails and no row is written.
RunBacktest ==
    /\ gate_requests < MaxGateRequests
    /\ Len(backtests) < MaxBacktests
    /\ \E id \in DOMAIN strategies :
        backtests' = BacktestDB_create(backtests, id, BacktestRequest)
    /\ UNCHANGED <<settings, strategies, validations, gate_results, gate_requests,
                   gate_response, otherVars>>

StartBacktest ==
    /\ gate_requests < MaxGateRequests
    /\ \E i \in DOMAIN backtests :
        /\ backtests[i].status = "pending"
        /\ backtests' = BacktestTaskStart(backtests, i, settings, utcnow(backtests))
    /\ UNCHANGED <<settings, strategies, validations, gate_results, gate_requests,
                   gate_response, otherVars>>

FinishBacktest ==
    /\ gate_requests < MaxGateRequests
    /\ \E i \in DOMAIN backtests, loop_running \in BOOLEAN,
          world \in {EngineWorld(Ran(GoodStats), Ran(GoodStats)),
                     EngineWorld(Ran(GoodStats),
                                 Ran([GoodStats EXCEPT !.sharpe_ratio = @ + MU \div 100 + 1])),
                     EngineWorld(Ran(GoodStats), Broke("nonzero")),
                     EngineWorld(Ran(GoodStats), Broke("malformed")),
                     EngineWorld(Ran(PoorStats), Ran(PoorStats)),
                     EngineWorld(Broke("nonzero"), Broke("nonzero"))} :
        /\ backtests[i].status = "running"
        /\ backtests' = BacktestTaskRun(Database, i, settings, loop_running, world,
                                       utcnow(backtests))
    /\ UNCHANGED <<settings, strategies, validations, gate_results, gate_requests,
                   gate_response, otherVars>>

\* _run_backtest after update_completed: the trades and the equity curve of
\* the run are set on the row and committed, and the completion event is
\* broadcast.  A commit that raises (committed = FALSE) is rolled back and
\* the except clause of the task calls update_failed.
StoreBacktestResults ==
    /\ gate_requests < MaxGateRequests
    /\ \E i \in DOMAIN backtests, committed \in BOOLEAN :
        /\ backtests[i].status = "completed"
        /\ backtests[i].trades.isNone
        /\ backtests' =
                IF committed
                    THEN [backtests EXCEPT ![i].trades = Some("trades.csv")]
                ELSE BacktestDB_update_failed(backtests, i, "OperationalError",
                                              utcnow(backtests))
    /\ UNCHANGED <<settings, strategies, validations, gate_results, gate_requests,
                   gate_response, otherVars>>

\* POST /api/v1/validation/run
RunValidation ==
    /\ gate_requests < MaxGateRequests
    /\ Len(validations) < MaxValidations
    /\ \E id \in DOMAIN strategies :
        validations' = ValidationDB_create(validations, id)
    /\ UNCHANGED <<settings, strategies, backtests, gate_results, gate_requests,
                   gate_response, otherVars>>

StartValidation ==
    /\ gate_requests < MaxGateRequests
    /\ \E i \in DOMAIN validations :
        /\ validations[i].status = "pending"
        /\ validations' = ValidationTaskStart(validations, i, settings, utcnow(validations))
    /\ UNCHANGED <<settings, strategies, backtests, gate_results, gate_requests,
                   gate_response, otherVars>>

FinishValidation ==
    /\ gate_requests < MaxGateRequests
    /\ \E i \in DOMAIN validations,
          train \in {EngineWorld(Ran(GoodStats), Broke("nonzero")),
                     EngineWorld(Broke("nonzero"), Broke("nonzero"))},
          test \in {EngineWorld(Ran(st), Broke("nonzero")) :
                       st \in {GoodStats, [GoodStats EXCEPT !.sharpe_ratio = 1400], PoorStats}} :
        /\ validations[i].status = "running"
        /\ validations' = ValidationTaskRun(Database, i,
                                           [initial_capital |-> 100000,
                                            instruments |-> <<"SPY">>],
                                           train, test,
                                           utcnow(validations))
    /\ UNCHANGED <<settings, strategies, backtests, gate_results, gate_requests,
                   gate_response, otherVars>>

GateRequests(validation_ids) ==
    [strategy_id : {"s1", "s-unknown"},
     backtest_id : OptionOf(1..MaxBacktests),
     validation_id : validation_ids]

\* The effect of one gate request: its rows are committed, and the request,
\* the evidence it resolved and its outcome are recorded.
Serve(gate, request, handled) ==
    /\ gate_requests < MaxGateRequests
    /\ gate_requests' = gate_requests + 1
    /\ gate_results' = gate_results \o handled.rows
    /\ gate_response' =
        [gate |-> gate, request |-> request,
         evidence |-> [strategy |-> StrategyDB_get(strategies, request.strategy_id),
                       backtest |-> _resolve_backtest(request, Database),
                       validation |-> _resolve_validation(request, Database)],
         outcome |-> handled.outcome]
    /\ UNCHANGED <<settings, strategies, backtests, validations, otherVars>>

\* POST /api/v1/gates/dev-gate
RunDevGate ==
    \E request \in GateRequests({None}) :
        Serve("dev", request, run_dev_gate(request, Database))

\* POST /api/v1/gates/crv-gate
RunCrvGate ==
    \E request \in GateRequests({None}) :
        Serve("crv", request, run_crv_gate(request, Database))

\* POST /api/v1/gates/product-gate
RunProductGate ==
    \E request \in GateRequests(OptionOf(1..MaxValidations)) :
        Serve("product", request, run_product_gate(request, Database, settings))

NextGates ==
    \/ CreateStrategy
    \/ RunBacktest \/ StartBacktest \/ FinishBacktest \/ StoreBacktestResults
    \/ RunValidation \/ StartValidation \/ FinishValidation
    \/ RunDevGate \/ RunCrvGate \/ RunProductGate

SpecGates == InitGates /\ [][NextGates]_vars

(***************************************************************************)
(* Properties of the readiness scorer (checked under SpecReadiness)        *)
(***************************************************************************)
Scored == payload.status = "ok"

HardBlockerPresent(s) ==
    \/ ~s.run_identity_present
    \/ ~s.parity_checked
    \/ ~s.parity_passed
    \/ ~s.lineage_complete
    \/ s.policy_block_reasons # <<>>

\* C1: whenever a hard blocker is present the returned band is Red and
\* blocked is true, whatever the score; blocked is true only when
\* hard_blockers is non-empty; with no hard blocker the band is the threshold
\* band of the score (Green if score >= green, else Amber if score >= amber,
\* else Red).
C1_HardBlockerPrecedence ==
    Scored =>
        LET p == payload.value
            green == p.thresholds["green"] * FP
        IN  /\ HardBlockerPresent(signals) => (p.band = "Red" /\ p.blocked)
            /\ p.blocked => p.hard_blockers # <<>>
            /\ ~HardBlockerPresent(signals) =>
                /\ ~p.blocked
                /\ (p.score >= green => p.band = "Green")
                /\ (p.score < green /\ p.score >= p.thresholds["amber"] * FP
                        => p.band = "Amber")
                /\ (p.score < green /\ p.score < p.thresholds["amber"] * FP
                        => p.band = "Red")

\* A blocked payload whose score alone would have been Green.
C1_Witness ==
    /\ Scored
    /\ ~signals.run_identity_present
    /\ payload.value.score >= payload.value.thresholds["green"] * FP
    /\ payload.value.band = "Red"
    /\ payload.value.blocked

ExactWeightedSum(p) ==
    p.weights["D"] * (p.components["D"] \div FP)
    + p.weights["R"] * (p.components["R"] \div FP)
    + p.weights["P"] * (p.components["P"] \div FP)
    + p.weights["O"] * (p.components["O"] \div FP)
    + p.weights["U"] * (p.components["U"] \div FP)

Clamp0to100(x) == IF x < 0 THEN 0 ELSE IF x > 100 * FP THEN 100 * FP ELSE x

\* C7: the score is the weighted sum of the five component scores, clamped
\* to [0,100] and rounded to 3 decimals (a multiple of 0.001 at most half a
\* thousandth away from the clamped sum); with the default weights the score
\* is 100.0 exactly when all five components are 100.
C7_ScoreIsWeightedSum ==
    Scored =>
        LET p == payload.value
            clamped == Clamp0to100(ExactWeightedSum(p))
        IN  /\ p.score % (FP \div 1000) = 0
            /\ 2 * Abs(p.score - clamped) <= FP \div 1000
            /\ p.score >= 0 /\ p.score <= 100 * FP
            /\ p.weights = DEFAULT_WEIGHTS =>
                (p.score = 100 * FP <=> \A k \in KeySet : p.components[k] = 100 * FP)

\* A payload whose weighted sum was really rounded, and one whose sum was clamped.
C7_Witness ==
    /\ Scored
    /\ payload.value.weights # DEFAULT_WEIGHTS
    /\ ExactWeightedSum(payload.value) # payload.value.score
    /\ ExactWeightedSum(payload.value) > 0
    /\ ExactWeightedSum(payload.value) < 100 * FP
    /\ payload.value.components["U"] > 0

Penalty(cond, points) == IF cond THEN points * FP ELSE 0

\* C8: each component is 100 minus the fixed penalties of its triggered
\* conditions and lies in [0,100]; the components map has exactly the keys
\* D, R, P, O, U.
C8_ComponentPenalties ==
    Scored =>
        LET c == payload.value.components
            s == signals
        IN  /\ DOMAIN c = {"D", "R", "P", "O", "U"}
            /\ \A k \in DOMAIN c : c[k] >= 0 /\ c[k] <= 100 * FP
            /\ c["D"] = 100 * FP - Penalty(~s.parity_checked, 40)
                            - Penalty(~s.run_identity_present, 30)
                            - Penalty(~s.parity_passed, 30)
            /\ c["R"] = 100 * FP - Penalty(~s.validation_passed, 50)
                            - Penalty(~s.crv_available, 25)
                            - Penalty(~s.risk_metrics_complete, 25)
            /\ c["P"] = 100 * FP - Penalty(Len(s.policy_block_reasons) > 0, 60)
                            - Penalty(~s.lineage_complete, 40)
            /\ c["O"] = 100 * FP - Penalty(s.startup_status # "healthy", 40)
                            - Penalty(s.evidence_stale, 30)
                            - Penalty(Len(s.startup_reasons) >= 2, 30)
            /\ c["U"] = 100 * FP - Penalty(s.contract_mismatch, 60)
                            - Penalty(~s.maturity_label_visible, 40)

\* One startup reason costs nothing, and a component with every penalty is 0.
C8_Witness ==
    /\ Scored
    /\ Len(signals.startup_reasons) = 1
    /\ payload.value.components["O"] = 100 * FP
    /\ payload.value.components["D"] = 0
    /\ payload.value.components["R"] = 25 * FP

RECURSIVE SumOver(_, _)
SumOver(m, ks) ==
    IF ks = {} THEN 0
    ELSE LET k == CHOOSE x \in ks : TRUE IN m[k] + SumOver(m, ks \ {k})

\* C9 (as claimed): a weights override not summing to 1.0, or thresholds
\* with invalid bounds, raises and returns no payload; every returned payload
\* has weights summing to 1.0; supplied weights are never replaced.
C9_MalformedConfigRejected ==
    payload.status # "none" =>
        /\ (~call.weights.isNone /\ SumOver(call.weights.val, DOMAIN call.weights.val) # FP)
                => payload.status = "raised"
        /\ Scored => SumOver(payload.value.weights, DOMAIN payload.value.weights) = FP
        /\ (Scored /\ ~call.weights.isNone) => payload.value.weights = call.weights.val

(***************************************************************************)
(* Properties of the parity comparison (checked under SpecParity)          *)
(***************************************************************************)
Compared == parity_out # <<>>

Diff(k) == Abs(Get(parity_in.a, k, 0) - Get(parity_in.b, k, 0))

\* C5: passed is true iff every tracked metric differs by at most its
\* tolerance of 0.01 (a difference equal to the tolerance passes); the
\* violations map has exactly the metrics whose difference exceeds the
\* tolerance, each with its a, b, delta and tolerance.
C5_ParityWithinTolerance ==
    Compared =>
        LET tracked == {"total_return", "sharpe_ratio", "max_drawdown"}
        IN  /\ parity_out.passed <=> \A k \in tracked : Diff(k) * 100 <= MU
            /\ DOMAIN parity_out.violations = {k \in tracked : Diff(k) * 100 > MU}
            /\ \A k \in DOMAIN parity_out.violations :
                parity_out.violations[k] =
                    [a |-> Get(parity_in.a, k, 0), b |-> Get(parity_in.b, k, 0),
                     delta |-> Diff(k), tolerance |-> MU \div 100]

\* One metric exactly at the tolerance, one just beyond it, one missing on one side.
C5_Witness ==
    /\ Compared
    /\ Diff("total_return") * 100 = MU
    /\ Diff("sharpe_ratio") * 100 > MU
    /\ "max_drawdown" \notin DOMAIN parity_in.a
    /\ DOMAIN parity_out.violations = {"sharpe_ratio"}
    /\ ~parity_out.passed

(***************************************************************************)
(* Properties of an engine run (checked under SpecEngine)                  *)
(***************************************************************************)
\* C3 (as claimed): when the evidence given to the Dev Gate has
\* parity_check.checked = false, the check "Replay Determinism" is not
\* passed and the Dev Gate does not pass.
C3_SkippedReplayFailsDevGate ==
    (vres.gate = "dev" /\ ~vreq.backtest_metrics.val["parity_check"].checked) =>
        /\ vres.result.checks[4].check_name = "Replay Determinism"
        /\ ~vres.result.checks[4].passed
        /\ ~vres.result.passed

\* C6 (as claimed): once the primary run has succeeded, every failure of the
\* replay invocation makes run_engine_backtest return metrics with
\* parity_check = {checked: true, passed: false, violations: {engine:
\* replay_failed}} and replay_pass = false; no exception escapes.
C6_ReplayFailureIsFailedParity ==
    (/\ eng_out.status # "none"
     /\ eng_in.run_replay_check
     /\ DOMAIN eng_in.world.files # {}
     /\ eng_in.world.primary.kind = "ok"
     /\ eng_in.world.replay.kind # "ok") =>
        /\ eng_out.status = "ok"
        /\ eng_out.value.metrics["parity_check"] =
                [checked |-> TRUE, passed |-> FALSE,
                 violations |-> [engine |-> "replay_failed"]]
        /\ eng_out.value.metrics["replay_pass"] = FALSE

(***************************************************************************)
(* Properties of the gate evaluators (checked under SpecVerify)            *)
(***************************************************************************)
NoMetricsSupplied == vreq.backtest_metrics.isNone \/ DOMAIN vreq.backtest_metrics.val = {}

\* The threshold in force: the request's override if given, else the default.
ThresholdInForce(k, default) ==
    IF ~vreq.thresholds.isNone /\ k \in DOMAIN vreq.thresholds.val
        THEN vreq.thresholds.val[k] ELSE default

CheckNames(checks) == [i \in 1..Len(checks) |-> checks[i].check_name]

\* C10: without backtest metrics verify_crv_gate returns the single failing
\* check "Backtest Metrics Available", gate_status "blocked", score 0.0 and
\* the recommendation "Complete backtest to obtain risk metrics"; otherwise
\* it returns exactly the checks Sharpe Ratio, Max Drawdown, Total Return and
\* passes iff sharpe_ratio >= min_sharpe, max_drawdown <= cap and
\* total_return >= min_return, each threshold being the request's override
\* if given and else the default 1.0 / 0.20 / 0.10, with one recommendation
\* per failing check.
C10_CrvGate ==
    vres.gate = "crv" =>
        LET r == vres.result
        IN  IF NoMetricsSupplied THEN
                /\ CheckNames(r.checks) = <<"Backtest Metrics Available">>
                /\ ~r.checks[1].passed
                /\ ~r.passed
                /\ r.gate_status = "blocked"
                /\ r.score = 0
                /\ Len(r.recommendations) = 1
                /\ r.recommendations[1].text = "Complete backtest to obtain risk metrics"
            ELSE
                LET m == vreq.backtest_metrics.val
                    sharpe_ok == Get(m, "sharpe_ratio", 0) >= ThresholdInForce("min_sharpe", 1000)
                    dd_ok == Get(m, "max_drawdown", 1000) <= ThresholdInForce("max_drawdown", 200)
                    ret_ok == Get(m, "total_return", 0) >= ThresholdInForce("min_return", 100)
                IN  /\ CheckNames(r.checks) = <<"Sharpe Ratio", "Max Drawdown", "Total Return">>
                    /\ r.checks[1].passed <=> sharpe_ok
                    /\ r.checks[2].passed <=> dd_ok
                    /\ r.checks[3].passed <=> ret_ok
                    /\ r.passed <=> (sharpe_ok /\ dd_ok /\ ret_ok)
                    /\ r.gate_status = (IF r.passed THEN "passed" ELSE "failed")
                    /\ Len(r.recommendations) =
                        (IF sharpe_ok THEN 0 ELSE 1) + (IF dd_ok THEN 0 ELSE 1)
                        + (IF ret_ok THEN 0 ELSE 1)

\* A pass that needs one override (min_sharpe) and two defaults, with the
\* drawdown exactly at the default cap.
C10_Witness ==
    /\ vres.gate = "crv"
    /\ ~NoMetricsSupplied
    /\ ~vreq.thresholds.isNone
    /\ DOMAIN vreq.thresholds.val = {"min_sharpe"}
    /\ Get(vreq.backtest_metrics.val, "sharpe_ratio", 0) = 999
    /\ Get(vreq.backtest_metrics.val, "max_drawdown", 1000) = 200
    /\ Get(vreq.backtest_metrics.val, "total_return", 0) = 100
    /\ vres.result.passed

(***************************************************************************)
(* Properties of the gate endpoints (checked under SpecGates)              *)
(***************************************************************************)
ProductServed == gate_response.gate = "product" /\ gate_response.outcome.status = "ok"

\* The metrics of the backtest a gate request resolved ({} when it resolved
\* none, or one without metrics).
EvidenceMetrics ==
    LET backtest == gate_response.evidence.backtest
    IN  IF ~backtest.isNone /\ ~backtest.val.metrics.isNone
            THEN backtest.val.metrics.val ELSE <<>>

EvidenceValidationPassed ==
    LET validation == gate_response.evidence.validation
    IN  ~validation.isNone /\ validation.val.passed = Some(TRUE)

EvidenceParityClean ==
    /\ Truthy(EvidenceMetrics, "run_identity")
    /\ "parity_check" \in DOMAIN EvidenceMetrics
    /\ EvidenceMetrics["parity_check"].checked
    /\ EvidenceMetrics["parity_check"].passed

EvidenceLineageComplete ==
    \A field \in {"run_identity", "data_provenance", "transformation_lineage",
                  "policy_outcomes", "artifact_links"} :
        Truthy(EvidenceMetrics, field)

\* C2: every result of run_product_gate has production_ready = true exactly
\* when, on the evidence the request resolved, the dev gate passed, the CRV
\* gate passed, the resolved validation passed, no parity block reason
\* applies (run_identity present, parity_check.checked and
\* parity_check.passed true) and all five lineage fields are present; the
\* product row it stores carries the same verdict.
C2_ProductionReadyNeedsAll ==
    ProductServed =>
        LET result == gate_response.outcome.value
            row == gate_results[Len(gate_results)]
        IN  /\ result.production_ready <=>
                    (/\ result.dev_gate.passed
                     /\ result.crv_gate.passed
                     /\ EvidenceValidationPassed
                     /\ EvidenceParityClean
                     /\ EvidenceLineageComplete)
            /\ result.validation_passed <=> EvidenceValidationPassed
            /\ row.gate_type = "product"
            /\ row.passed = result.production_ready
            /\ (row.results.parity_block_reasons = <<>>) <=> EvidenceParityClean
            /\ row.results.lineage_passed <=> EvidenceLineageComplete

\* A product-gate request that found everything in order.
C2_Witness ==
    /\ ProductServed
    /\ gate_response.outcome.value.production_ready
    /\ EvidenceParityClean
    /\ EvidenceValidationPassed

\* C4 (as claimed): with the gates enabled and the strategy in place, a gate
\* request that finds evidence missing is answered with a non-passing
\* result; no gate request ends in an exception.
C4_MissingEvidenceNeverRaises ==
    (/\ gate_response.gate # "none"
     /\ settings.enable_truth_gates
     /\ ~gate_response.evidence.strategy.isNone) =>
        /\ gate_response.outcome.status = "ok"
        /\ (gate_response.evidence.backtest.isNone =>
                IF gate_response.gate = "product"
                    THEN ~gate_response.outcome.value.production_ready
                    ELSE ~gate_response.outcome.value.passed)

DevVerified == vres.gate = "dev"

DevCheckNames ==
    <<"Strategy Exists", "Completed Backtest", "Run Identity Present", "Replay Determinism">>

\* The (check_name, description) pairs of the failing checks, in check order
FailingChecks(checks) ==
    LET failing == SelectSeq(checks, LAMBDA c : ~c.passed)
    IN  [i \in 1..Len(failing) |->
            [check_name |-> failing[i].check_name, description |-> failing[i].description]]

\* C11: verify_dev_gate returns exactly the four checks Strategy Exists,
\* Completed Backtest, Run Identity Present, Replay Determinism, in that
\* order and each with severity "error"; passed is the conjunction of the
\* four checks; score is round(100 * passed_count / 4, 1); recommendations
\* holds one "Fix: {check_name} - {description}" per failing check, in check
\* order, and nothing else.
C11_DevGateShape ==
    DevVerified =>
        LET r == vres.result
            n == Cardinality({i \in 1..Len(r.checks) : r.checks[i].passed})
        IN  /\ CheckNames(r.checks) = DevCheckNames
            /\ \A i \in 1..4 : r.checks[i].severity = "error"
            /\ r.passed <=> (\A i \in 1..4 : r.checks[i].passed)
            /\ r.gate_status = (IF r.passed THEN "passed" ELSE "failed")
            /\ r.score = 250 * n
            /\ Len(r.recommendations) = 4 - n
            /\ \A i \in 1..Len(r.recommendations) : r.recommendations[i].text = "Fix"
            /\ [i \in 1..Len(r.recommendations) |->
                    [check_name |-> r.recommendations[i].check_name,
                     description |-> r.recommendations[i].description]]
               = FailingChecks(r.checks)

\* A Dev Gate result in which the first check holds and two others fail.
C11_Witness ==
    /\ DevVerified
    /\ vres.result.checks[1].passed
    /\ vres.result.score = 500
    /\ Len(vres.result.recommendations) = 2
    /\ ~vres.result.passed

ProductVerified == vres.gate = "product"

\* C12: the check list of verify_product_gate is the Dev Gate's checks, then
\* the CRV Gate's checks, then one check "Walk-Forward Validation" that is
\* true iff validation_metrics.status = "completed", all on the arguments of
\* the call; it passes iff verify_dev_gate passes, verify_crv_gate passes and
\* the validation check is true on those arguments; and a later call with the
\* same arguments, whatever gate calls came in between, returns what the first
\* call returned.
C12_ProductGateComposition ==
    ProductVerified =>
        LET r == vres.result
            dev == verify_dev_gate(vreq.strategy_id, vreq.backtest_metrics,
                                   vreq.strategy_exists)
            crv == verify_crv_gate(vreq.strategy_id, vreq.backtest_metrics, vreq.thresholds)
            n == Len(r.checks)
            validated == /\ ~vreq.validation_metrics.isNone
                         /\ "status" \in DOMAIN vreq.validation_metrics.val
                         /\ vreq.validation_metrics.val["status"] = "completed"
        IN  /\ n = Len(dev.checks) + Len(crv.checks) + 1
            /\ SubSeq(r.checks, 1, Len(dev.checks)) = dev.checks
            /\ SubSeq(r.checks, Len(dev.checks) + 1, n - 1) = crv.checks
            /\ r.checks[n].check_name = "Walk-Forward Validation"
            /\ r.checks[n].passed <=> validated
            /\ r.passed <=> (\A i \in 1..n : r.checks[i].passed)
            /\ r.passed <=> (dev.passed /\ crv.passed /\ validated)
            /\ vres.product_before = Some(r)

\* A verify_product_gate result whose only failing check is the validation,
\* for a validation record that is present but not completed.
C12_Witness ==
    /\ ProductVerified
    /\ Len(vres.result.checks) = 8
    /\ \A i \in 1..7 : vres.result.checks[i].passed
    /\ ~vres.result.checks[8].passed
    /\ ~vreq.validation_metrics.isNone
    /\ DOMAIN vreq.validation_metrics.val # {}

(***************************************************************************)
(* C13.  For every evidence map over the four flags, a missing key         *)
(* counting as false, determine_maturity returns one of the three labels   *)
(* by ordered rules: "production" iff truth_parity, determinism,           *)
(* contract_parity and lineage_completeness are all true; otherwise        *)
(* "validated" iff truth_parity, determinism and lineage_completeness are  *)
(* all true (so contract_parity is false); otherwise "experimental".       *)
(***************************************************************************)
Flag(evidence, k) == k \in DOMAIN evidence /\ evidence[k]

MaturityCalled == gov_out # <<>> /\ gov_out.fn = "determine_maturity"

C13_MaturityLabel ==
    MaturityCalled =>
        LET e == gov_in.evidence
            core == Flag(e, "truth_parity") /\ Flag(e, "determinism")
                        /\ Flag(e, "lineage_completeness")
            label == gov_out.value
        IN  /\ label \in {"production", "validated", "experimental"}
            /\ (label = "production") <=> (core /\ Flag(e, "contract_parity"))
            /\ (label = "validated") <=> (core /\ ~Flag(e, "contract_parity"))
            /\ (label = "experimental") <=> ~core

\* The label "validated" was returned for an evidence map that leaves
\* contract_parity out.
C13_Witness ==
    /\ MaturityCalled
    /\ gov_out.value = "validated"
    /\ "contract_parity" \notin DOMAIN gov_in.evidence

(***************************************************************************)
(* C14.  For every evidence map, evaluate_release_gate returns             *)
(* block_reasons equal to the list of "{key}_failed" for exactly the keys  *)
(* whose evidence is false, in the order truth_parity, determinism,        *)
(* contract_parity, lineage_completeness; passed is true iff that list is  *)
(* empty; and the label is that of determine_maturity on the same          *)
(* evidence.  The label is "validated" with passed false exactly when only *)
(* contract_parity is false, and passed is true iff the label is           *)
(* "production".                                                           *)
(***************************************************************************)
ReleaseGateCalled == gov_out # <<>> /\ gov_out.fn = "evaluate_release_gate"

FailedIf(evidence, k, reason) == IF Flag(evidence, k) THEN <<>> ELSE <<reason>>

C14_ReleaseGate ==
    ReleaseGateCalled =>
        LET e == gov_in.evidence
            r == gov_out.value
            onlyContractFalse ==
                /\ Flag(e, "truth_parity")
                /\ Flag(e, "determinism")
                /\ Flag(e, "lineage_completeness")
                /\ ~Flag(e, "contract_parity")
        IN  /\ r.reasons = FailedIf(e, "truth_parity", "truth_parity_failed")
                            \o FailedIf(e, "determinism", "determinism_failed")
                            \o FailedIf(e, "contract_parity", "contract_parity_failed")
                            \o FailedIf(e, "lineage_completeness",
                                        "lineage_completeness_failed")
            /\ r.passed <=> (r.reasons = <<>>)
            /\ r.maturity = determine_maturity(e)
            /\ (r.maturity = "validated" /\ ~r.passed) <=> onlyContractFalse
            /\ r.passed <=> (r.maturity = "production")

\* The gate returned "validated" with passed false and the single reason
\* contract_parity_failed.
C14_Witness ==
    /\ ReleaseGateCalled
    /\ gov_out.value.maturity = "validated"
    /\ ~gov_out.value.passed
    /\ gov_out.value.reasons = <<"contract_parity_failed">>

(***************************************************************************)
(* C15.  For every metrics input, check_lineage_completeness returns       *)
(* (complete, missing) where missing lists, in the fixed order             *)
(* run_identity, data_provenance, transformation_lineage, policy_outcomes, *)
(* artifact_links, the required fields that are absent from metrics or     *)
(* empty, and complete is true iff missing is empty.  When the metrics     *)
(* object itself is absent the result is (false, all five fields) and no   *)
(* error is raised.                                                        *)
(***************************************************************************)
LineageCalled == gov_out # <<>> /\ gov_out.fn = "check_lineage_completeness"

MissingIf(metrics, field) ==
    IF field \in DOMAIN metrics /\ metrics[field] # <<>> THEN <<>> ELSE <<field>>

C15_LineageCompleteness ==
    LineageCalled =>
        LET m == gov_in.metrics
            r == gov_out.value
        IN  /\ DOMAIN r = {"passed", "missing"}
            /\ r.passed <=> (r.missing = <<>>)
            /\ m.isNone =>
                /\ ~r.passed
                /\ r.missing = <<"run_identity", "data_provenance",
                                 "transformation_lineage", "policy_outcomes",
                                 "artifact_links">>
            /\ ~m.isNone =>
                r.missing = MissingIf(m.val, "run_identity")
                            \o MissingIf(m.val, "data_provenance")
                            \o MissingIf(m.val, "transformation_lineage")
                            \o MissingIf(m.val, "policy_outcomes")
                            \o MissingIf(m.val, "artifact_links")

\* A metrics dict with run_identity present but empty and policy_outcomes
\* left out was checked: both are reported, in the fixed order.
C15_Witness ==
    /\ LineageCalled
    /\ ~gov_in.metrics.isNone
    /\ "run_identity" \in DOMAIN gov_in.metrics.val
    /\ gov_in.metrics.val["run_identity"] = <<>>
    /\ "policy_outcomes" \notin DOMAIN gov_in.metrics.val
    /\ gov_out.value.missing = <<"run_identity", "policy_outcomes">>

(***************************************************************************)
(* C16.  For any two invocations of run_engine_backtest, in either order,  *)
(* with the same canonical spec and a dataset file with the same contents, *)
(* the two run identities {spec_hash, data_hash, seed, engine_version} are *)
(* identical; spec_hash depends only on the canonical spec and data_hash   *)
(* only on the dataset's contents, not on its path.                        *)
(*                                                                         *)
(* As stated the property fails: engine_version is what the engine answers *)
(* to --version at each invocation ("unknown" when it answers nothing), so *)
(* two runs of the same spec on the same data differ in engine_version     *)
(* when that answer differs.  C16_SameInputsSameIdentity is the statement  *)
(* as made; C16_RunIdentityReproducible adds the hypothesis that the       *)
(* engine gives the same version answer in both invocations.               *)
(***************************************************************************)
BothRan == eng_out[1].status = "ok" /\ eng_out[2].status = "ok"

CanonicalSpecOf(i) == _build_spec(eng_in[i].strategy, eng_in[i].request_data)

DatasetOf(i) == eng_in[i].world.files[eng_in[i].request_data.data_source]

SameInputs == CanonicalSpecOf(1) = CanonicalSpecOf(2) /\ DatasetOf(1) = DatasetOf(2)

SameVersionAnswer == eng_in[1].world.version = eng_in[2].world.version

C16_SameInputsSameIdentity ==
    (BothRan /\ SameInputs) => eng_out[1].value.run_identity = eng_out[2].value.run_identity

C16_RunIdentityReproducible ==
    BothRan =>
        LET id1 == eng_out[1].value.run_identity
            id2 == eng_out[2].value.run_identity
        IN  /\ (SameInputs /\ SameVersionAnswer) => id1 = id2
            /\ (CanonicalSpecOf(1) = CanonicalSpecOf(2)) =>
                    (id1.spec_hash = id2.spec_hash /\ id1.seed = id2.seed)
            /\ (DatasetOf(1) = DatasetOf(2)) => id1.data_hash = id2.data_hash
            /\ eng_out[1].value.metrics.run_identity = id1
            /\ eng_out[2].value.metrics.run_identity = id2

\* Two runs whose strategies and requests differ as dicts but build the same
\* spec, on equal data under different paths, returned equal identities.
C16_Witness ==
    /\ BothRan
    /\ SameInputs
    /\ SameVersionAnswer
    /\ eng_in[1].strategy # eng_in[2].strategy
    /\ eng_in[1].request_data.data_source # eng_in[2].request_data.data_source
    /\ DOMAIN eng_in[1].request_data # DOMAIN eng_in[2].request_data
    /\ eng_out[1].value.run_identity = eng_out[2].value.run_identity

(***************************************************************************)
(* C17.  When the dataset named by the request's data_source cannot be     *)
(* resolved to an existing file, run_engine_backtest fails with a          *)
(* data-not-found error before any engine invocation; it never substitutes *)
(* the default dataset, so the data_provenance of a successful run         *)
(* describes the dataset the request named.                                *)
(***************************************************************************)
NamesDataset(request_data) ==
    /\ "data_source" \in DOMAIN request_data
    /\ request_data.data_source \notin {"", "default"}

Resolvable(data_source, world) ==
    data_source \in DOMAIN world.files \/ ("data/" \o data_source) \in DOMAIN world.files

C17_UnresolvableDatasetFails ==
    (eng_out.status # "none" /\ NamesDataset(eng_in.request_data)) =>
        /\ ~Resolvable(eng_in.request_data.data_source, eng_in.world) =>
                eng_out = Raised("RuntimeError: data file not found")
        /\ eng_out.status = "ok" =>
                eng_out.value.metrics.data_provenance.path
                    \in {eng_in.request_data.data_source,
                         "data/" \o eng_in.request_data.data_source}

(***************************************************************************)
(* C18.  For every signals value, top_blockers has at most 3 entries and   *)
(* no duplicates.  If hard blockers exist it is the hard blockers in       *)
(* detection order (missing_run_identity, missing_replay_check,            *)
(* parity_check_failed, missing_lineage_fields, policy_block_reasons), cut *)
(* to three, and holds no soft blocker; otherwise it is the applicable     *)
(* soft blockers in the order validation_not_completed, crv_unavailable,   *)
(* ops_degraded, evidence_stale, contract_invalid_gate_path,               *)
(* ui_contract_mismatch, cut to three; and it is <<"monitor_inputs">>      *)
(* exactly when no hard and no soft blocker applies.                       *)
(***************************************************************************)
If(cond, name) == IF cond THEN <<name>> ELSE <<>>

HardBlockersOf(s) ==
    If(~s.run_identity_present, "missing_run_identity")
    \o If(~s.parity_checked, "missing_replay_check")
    \o If(~s.parity_passed, "parity_check_failed")
    \o If(~s.lineage_complete, "missing_lineage_fields")
    \o If(s.policy_block_reasons # <<>>, "policy_block_reasons")

SoftBlockersOf(s) ==
    If(~s.validation_passed, "validation_not_completed")
    \o If(~s.crv_available, "crv_unavailable")
    \o If(s.startup_status # "healthy", "ops_degraded")
    \o If(s.evidence_stale, "evidence_stale")
    \o If(s.environment_caveat = "contract_invalid_gate_path", "contract_invalid_gate_path")
    \o If(s.contract_mismatch, "ui_contract_mismatch")

SoftBlockerNames ==
    {"validation_not_completed", "crv_unavailable", "ops_degraded", "evidence_stale",
     "contract_invalid_gate_path", "ui_contract_mismatch"}

FirstThree(list) == SubSeq(list, 1, IF Len(list) < 3 THEN Len(list) ELSE 3)

C18_TopBlockers ==
    Scored =>
        LET top == payload.value.top_blockers
            hard == HardBlockersOf(signals)
            soft == SoftBlockersOf(signals)
        IN  /\ Len(top) <= 3
            /\ \A i, j \in 1..Len(top) : top[i] = top[j] => i = j
            /\ hard # <<>> =>
                /\ top = FirstThree(hard)
                /\ Range(top) \cap SoftBlockerNames = {}
            /\ (hard = <<>> /\ soft # <<>>) => top = FirstThree(soft)
            /\ (top = <<"monitor_inputs">>) <=> (hard = <<>> /\ soft = <<>>)

\* With no hard blocker and only the CRV report unavailable (R = 75), the
\* single top blocker is crv_unavailable.
C18_Witness ==
    /\ Scored
    /\ HardBlockersOf(signals) = <<>>
    /\ SoftBlockersOf(signals) = <<"crv_unavailable">>
    /\ payload.value.components["R"] = 75 * FP
    /\ payload.value.top_blockers = <<"crv_unavailable">>

(***************************************************************************)
(* C19.  Every top blocker that build_readiness_payload can emit maps to   *)
(* exactly one fixed remediation string in the lookup table                *)
(* BLOCKER_ACTIONS, and next_actions is exactly those strings for the      *)
(* payload's top_blockers, in blocker order, deduplicated, with at most 3  *)
(* entries.                                                                *)
(*                                                                         *)
(* As stated the property fails for the placeholder "monitor_inputs",      *)
(* which top_blockers holds when nothing blocks: it is no key of           *)
(* BLOCKER_ACTIONS, and next_actions is then one fixed string from outside *)
(* the table.  C19_EveryTopBlockerInTable is the statement as made;        *)
(* C19_NextActions states it for the hard and soft blockers and adds the   *)
(* placeholder's case.                                                     *)
(***************************************************************************)
ActionsOf(top) == [i \in 1..Len(top) |-> BLOCKER_ACTIONS[top[i]]]

NoDuplicates(list) == \A i, j \in 1..Len(list) : list[i] = list[j] => i = j

C19_EveryTopBlockerInTable ==
    Scored =>
        LET top == payload.value.top_blockers
        IN  /\ \A i \in 1..Len(top) : top[i] \in DOMAIN BLOCKER_ACTIONS
            /\ payload.value.next_actions = ActionsOf(top)

C19_NextActions ==
    Scored =>
        LET top == payload.value.top_blockers
            next == payload.value.next_actions
        IN  /\ Len(next) <= 3
            /\ NoDuplicates(next)
            /\ top # <<"monitor_inputs">> =>
                /\ \A i \in 1..Len(top) : top[i] \in DOMAIN BLOCKER_ACTIONS
                /\ next = ActionsOf(top)
            /\ top = <<"monitor_inputs">> =>
                /\ "monitor_inputs" \notin DOMAIN BLOCKER_ACTIONS
                /\ next = <<"No immediate blockers. Continue monitoring readiness metrics.">>

\* Three blockers were reported and next_actions holds their three table
\* strings, the parity one second.
C19_Witness ==
    /\ Scored
    /\ Len(payload.value.top_blockers) = 3
    /\ payload.value.top_blockers[2] = "parity_check_failed"
    /\ Len(payload.value.next_actions) = 3
    /\ payload.value.next_actions[2]
            = "Re-run deterministic replay and resolve parity violations before promotion."

(***************************************************************************)
(* C20.  When build_readiness_payload is called without a previous         *)
(* scorecard, no error is raised and the transition block reports all-zero *)
(* deltas and nothing null: component_delta is 0 for each of D, R, P, O,   *)
(* U, score_delta is 0 and changed_components is empty.                    *)
(***************************************************************************)
C20_NoPreviousAllZeroDeltas ==
    (payload.status # "none" /\ call.via = "function" /\ call.previous_scorecard.isNone) =>
        /\ (call.weights.isNone /\ call.thresholds.isNone) => Scored
        /\ Scored =>
            LET t == payload.value.transition
            IN  /\ \A k \in KeySet : t.component_delta[k] = 0
                /\ t.changed_components = <<>>
                /\ t.score_delta = Some(0)

C26_MaturityLabelFollowsBand ==
    Scored =>
        LET p == payload.value
        IN  /\ p.maturity_label \in {"validated", "experimental"}
            /\ (p.maturity_label = "validated") <=> (p.band \in {"Green", "Amber"})
            /\ HardBlockerPresent(signals) => p.maturity_label = "experimental"

\* A payload whose score alone is Green but which is blocked by a failed
\* parity check, labelled experimental.
C26_Witness ==
    /\ Scored
    /\ ~signals.parity_passed
    /\ payload.value.score >= payload.value.thresholds["green"] * FP
    /\ payload.value.maturity_label = "experimental"

(***************************************************************************)
(* C30.  For every signals value, blocked is true iff component D < 100 or *)
(* component P < 100; hence every unblocked payload has D = 100 and        *)
(* P = 100, and no component clamp warning is recorded for any signals     *)
(* value.                                                                  *)
(***************************************************************************)
ComponentClampWarnings ==
    {k \o suffix : k \in KeySet, suffix \in {"_below_zero_clamped", "_above_hundred_clamped"}}

C30_BlockedIffDOrPPenalised ==
    Scored =>
        LET p == payload.value
        IN  /\ p.blocked <=> (p.components["D"] < 100 * FP \/ p.components["P"] < 100 * FP)
            /\ ~p.blocked => (p.components["D"] = 100 * FP /\ p.components["P"] = 100 * FP)
            /\ Range(p.warnings) \cap ComponentClampWarnings = {}

\* An unblocked payload with D = P = 100 whose R, O and U are all penalised.
C30_Witness ==
    /\ Scored
    /\ ~payload.value.blocked
    /\ payload.value.components["D"] = 100 * FP
    /\ payload.value.components["P"] = 100 * FP
    /\ payload.value.components["R"] < 100 * FP
    /\ payload.value.components["O"] < 100 * FP
    /\ payload.value.components["U"] < 100 * FP

(***************************************************************************)
(* C23.  For every readiness scoring request {strategy_id, signals} whose  *)
(* signals supply every ReadinessSignals field, the score_readiness        *)
(* endpoint returns a success response whose score, band, component scores *)
(* and blockers are those build_readiness_payload computes for that        *)
(* strategy and those signals; an error response is returned only for      *)
(* malformed signals.                                                      *)
(***************************************************************************)
C23_EndpointReturnsPayload ==
    (call.via = "endpoint" /\ DOMAIN signals = DOMAIN BaseSignals) =>
        LET computed == build_readiness_payload("s-1", signals, None, None, None).value
        IN  /\ payload.status = "ok"
            /\ payload.value.overall_score = computed.score
            /\ payload.value.color = computed.band
            /\ payload.value.dimensions = computed.components
            /\ payload.value.blockers = computed.hard_blockers

(***************************************************************************)
(* C21.  In a sequence of build_readiness_payload evaluations in which     *)
(* each call is given the preceding call's payload as previous_scorecard,  *)
(* the transition of each evaluation has previous_score equal to the       *)
(* preceding score, score_delta equal to the current score minus the       *)
(* preceding score, component_delta[k] equal to current[k] minus           *)
(* preceding[k] for each of D, R, P, O, U, and changed_components equal to *)
(* the keys whose absolute delta is at least 0.001; re-evaluating          *)
(* unchanged signals yields score_delta 0 and no changed component.        *)
(***************************************************************************)
\* build_readiness_payload was handed a whole preceding payload.
Chained ==
    /\ Scored
    /\ ~call.previous_scorecard.isNone
    /\ ~call.previous_scorecard.val.components.isNone
    /\ DOMAIN call.previous_scorecard.val.components.val = KeySet
    /\ ~call.previous_scorecard.val.score.isNone

C21_TransitionTracksPrevious ==
    Chained =>
        LET p == payload.value
            t == p.transition
            before == call.previous_scorecard.val
        IN  /\ t.previous_score = before.score
            /\ t.score_delta = Some(p.score - before.score.val)
            /\ \A k \in KeySet :
                    t.component_delta[k] = p.components[k] - before.components.val[k]
            /\ Range(t.changed_components)
                    = {k \in KeySet : Abs(t.component_delta[k]) >= FP \div 1000}
            /\ (p.components = before.components.val /\ p.score = before.score.val) =>
                    (t.score_delta = Some(0) /\ t.changed_components = <<>>)

\* An evaluation handed a preceding payload in which validation was lost
\* (R = 50, score 90); now the evidence is stale as well: only O changed, by
\* -30, and the score by -4.5.
C21_Witness ==
    /\ Chained
    /\ call.previous_scorecard.val.components.val["R"] = 50 * FP
    /\ call.previous_scorecard.val.components.val["O"] = 100 * FP
    /\ call.previous_scorecard.val.score.val = 90 * FP
    /\ payload.value.transition.changed_components = <<"O">>
    /\ payload.value.transition.component_delta["O"] = -30 * FP
    /\ payload.value.transition.score_delta = Some(-(45 * FP) \div 10)

(***************************************************************************)
(* C24.  Every engine invocation made by run_engine_backtest is bounded:   *)
(* if the engine process never exits the invocation is cut off, so a call  *)
(* of run_engine_backtest that has not returned yet can always return; and *)
(* a replay invocation that was cut off is reported as a failed replay     *)
(* (parity_check checked, not passed, violations {engine: replay_failed}). *)
(***************************************************************************)
C24_EngineInvocationsBounded ==
    /\ eng_out.status = "none" => ENABLED RunEngine
    /\ (/\ eng_out.status # "none"
        /\ eng_in.run_replay_check
        /\ eng_in.world.primary.kind = "ok"
        /\ eng_in.world.replay.kind = "hangs") =>
            /\ eng_out.status = "ok"
            /\ eng_out.value.metrics.parity_check
                    = [checked |-> TRUE, passed |-> FALSE,
                       violations |-> [engine |-> "replay_failed"]]

(***************************************************************************)
(* C27 (as claimed).  On the metrics of an engine run, in the form         *)
(* _normalize_metrics emits, verify_crv_gate with its default thresholds   *)
(* fails the Max Drawdown check whenever the drawdown of the run exceeds   *)
(* the 20% cap: a run with a deeper drawdown does not pass the CRV gate.   *)
(* The drawdown an engine reports is a fraction; the cap is                *)
(* DEFAULT_THRESHOLDS["max_drawdown"].                                     *)
(***************************************************************************)
DrawdownOfRun == Abs(eng_in.world.primary.stats.max_drawdown)

C27_DrawdownCapEffective ==
    (/\ vres.gate = "crv"
     /\ eng_out.status = "ok"
     /\ DrawdownOfRun > GVS_DEFAULT_THRESHOLDS.max_drawdown) =>
        /\ ~vres.result.checks[2].passed
        /\ ~vres.result.passed

(***************************************************************************)
(* C25 (as claimed).  A gate request persists its results only after all   *)
(* of its gate computation has completed: a product-gate request that      *)
(* aborts part-way, answered with an exception, leaves no GateResult row   *)
(* (dev, crv or product) behind.  gate_results holds the rows of the gate  *)
(* requests served so far, oldest first.                                   *)
(***************************************************************************)
ProductAborted ==
    /\ gate_response.gate = "product"
    /\ gate_response.outcome.status = "raised"

C25_AbortedRequestPersistsNothing ==
    (ProductAborted /\ gate_requests = 1) => gate_results = <<>>

(***************************************************************************)
(* C28 (as claimed).  A backtest row's status only moves forward through   *)
(* pending -> running -> {completed, failed}; completed and failed are     *)
(* terminal: once _run_backtest has marked the row completed and stored    *)
(* its metrics, no later step of the task (storing the trades and the      *)
(* equity curve, broadcasting the completion event) makes it failed, and a *)
(* failed row never holds the metrics of a completed run.                  *)
(***************************************************************************)
StatusRank(status) ==
    CASE status = "pending" -> 0
      [] status = "running" -> 1
      [] status \in {"completed", "failed"} -> 2

C29_VerifyResultConsistent ==
    vres.gate # "none" =>
        LET r == vres.result
        IN  /\ r.gate_type = vres.gate
            /\ r.passed <=> r.gate_status = "passed"
            /\ r.passed <=> r.score = 1000
            /\ r.passed <=> r.recommendations = <<>>
            /\ r.score \in 0..1000
            /\ r.gate_status \in {"passed", "failed", "blocked"}
            /\ r.gate_status = "blocked" =>
                    vres.gate = "crv" /\ ~HasMetrics(vreq.backtest_metrics)

\* A product verdict that passed with the full score and no recommendation.
C29_Witness ==
    /\ vres.gate = "product"
    /\ vres.result.passed
    /\ vres.result.score = 1000
    /\ vres.result.recommendations = <<>>

====
